---- MODULE Spec2Model ----
(***************************************************************************)
(* typeorm-d1: a TypeORM driver for Cloudflare D1.                         *)
(*                                                                         *)
(* The model covers the query runner (query execution, result mapping,     *)
(* the bookkeeping-only transaction lifecycle, the unsupported schema      *)
(* operations), the error handler and the query normalizer.  Texts are     *)
(* TLA+ strings handled character by character (Len, SubSeq, \o), so that  *)
(* prefix tests, substring searches and case folding are computed the way  *)
(* the code computes them.  An optional JavaScript field is a tuple of     *)
(* length 0 (absent) or 1 (present).                                       *)
(***************************************************************************)
EXTENDS Integers, Sequences, FiniteSets, TLC

VARIABLES
  runners,            \* the query runners created so far, in creation order
  pending,            \* query() calls suspended at an await, oldest first
  remoteLog,          \* every call the remote handle received, in order
  issued,             \* number of query() calls made so far
  last,               \* what the last step did (call, runner, outcome, result)
  fnIn,               \* input of the pure function under check
  fnOut,              \* its output
  driver,             \* the driver the last construction produced, if any
  registry,           \* the static fields of D1DriverRegistry
  factoryCreate,      \* the function installed as DriverFactory.prototype.create
  registrations,      \* register calls not yet matched by an unregister call
  afterConnects,      \* the afterConnect calls of the driver, one record each
  lookups             \* the getTable/getTables calls waiting for their query()

hostVars == <<driver, registry, factoryCreate, registrations, afterConnects, lookups>>

vars == <<runners, pending, remoteLog, issued, last, fnIn, fnOut, hostVars>>

(***************************************************************************)
(* Bounds of the model.                                                    *)
(***************************************************************************)
MaxRunners == 2
MaxQueries == 2
MaxPending == 1
MaxParams  == 2
MaxRegistrations == 3
MaxConnects == 2

(***************************************************************************)
(* Optional values and JavaScript truthiness.                              *)
(***************************************************************************)
Absent == <<>>
Some(v) == <<v>>
IsPresent(o) == Len(o) = 1
Get(o) == o[1]

\* `n || d` for an optional number n: absent and 0 are falsy
OrNum(o, d) == IF IsPresent(o) /\ Get(o) # 0 THEN Get(o) ELSE d

\* truthiness of an optional string: absent and "" are falsy
TruthyStr(o) == IsPresent(o) /\ Get(o) # ""

(***************************************************************************)
(* Strings.                                                                *)
(***************************************************************************)
LowerAlphabet == "abcdefghijklmnopqrstuvwxyz"
UpperAlphabet == "ABCDEFGHIJKLMNOPQRSTUVWXYZ"

CharAt(s, i) == SubSeq(s, i, i)

LowerLetters == { CharAt(LowerAlphabet, i) : i \in 1..Len(LowerAlphabet) }
UpperLetters == { CharAt(UpperAlphabet, i) : i \in 1..Len(UpperAlphabet) }

IndexIn(alphabet, c) == CHOOSE i \in 1..Len(alphabet) : CharAt(alphabet, i) = c

LowerOf == [ c \in UpperLetters |-> CharAt(LowerAlphabet, IndexIn(UpperAlphabet, c)) ]
UpperOf == [ c \in LowerLetters |-> CharAt(UpperAlphabet, IndexIn(LowerAlphabet, c)) ]

LowerChar(c) == IF c \in UpperLetters THEN LowerOf[c] ELSE c

UpperChar(c) == IF c \in LowerLetters THEN UpperOf[c] ELSE c

\* character by character; the text is halved at each level so that long
\* texts need little nesting
RECURSIVE toLowerCase(_)
toLowerCase(s) ==
  IF Len(s) = 0 THEN ""
  ELSE IF Len(s) = 1 THEN LowerChar(s)
  ELSE toLowerCase(SubSeq(s, 1, Len(s) \div 2))
         \o toLowerCase(SubSeq(s, Len(s) \div 2 + 1, Len(s)))

RECURSIVE toUpperCase(_)
toUpperCase(s) ==
  IF Len(s) = 0 THEN ""
  ELSE IF Len(s) = 1 THEN UpperChar(s)
  ELSE toUpperCase(SubSeq(s, 1, Len(s) \div 2))
         \o toUpperCase(SubSeq(s, Len(s) \div 2 + 1, Len(s)))

includes(s, t) ==
  \E i \in 1..(Len(s) - Len(t) + 1) : SubSeq(s, i, i + Len(t) - 1) = t

startsWith(s, t) == Len(s) >= Len(t) /\ SubSeq(s, 1, Len(t)) = t

substring(s, from, to) ==
  SubSeq(s, from + 1, IF to > Len(s) THEN Len(s) ELSE to)

IsSpace(c) == c \in {" ", "\n", "\t", "\r"}

RECURSIVE trimStart(_)
trimStart(s) ==
  IF Len(s) > 0 /\ IsSpace(CharAt(s, 1)) THEN trimStart(SubSeq(s, 2, Len(s))) ELSE s

RECURSIVE trimEnd(_)
trimEnd(s) ==
  IF Len(s) > 0 /\ IsSpace(CharAt(s, Len(s))) THEN trimEnd(SubSeq(s, 1, Len(s) - 1)) ELSE s

trim(s) == trimEnd(trimStart(s))

(***************************************************************************)
(* CONSTANTS (utils/constants.ts).                                         *)
(***************************************************************************)
QUERY_PREVIEW_MAX_LENGTH == 200

(***************************************************************************)
(* QueryNormalizer.                                                        *)
(***************************************************************************)
\* query.replace(/^DROP INDEX\s+/i, "DROP INDEX IF EXISTS "): the pattern is
\* anchored at the first character of the untrimmed text and needs at least
\* one white-space character after the keyword
replaceDropIndex(query) ==
  IF /\ Len(query) > 10
     /\ toUpperCase(SubSeq(query, 1, 10)) = "DROP INDEX"
     /\ IsSpace(CharAt(query, 11))
  THEN "DROP INDEX IF EXISTS " \o trimStart(SubSeq(query, 11, Len(query)))
  ELSE query

\* a normalizer that does not look for an existing IF EXISTS
normalizeQuery_always(query) ==
  IF startsWith(toUpperCase(trim(query)), "DROP INDEX")
  THEN replaceDropIndex(query)
  ELSE query

normalizeQuery(query) ==
  IF startsWith(toUpperCase(trim(query)), "DROP INDEX")
  THEN IF ~ includes(toUpperCase(query), "IF EXISTS")
       THEN replaceDropIndex(query)
       ELSE query
  ELSE query

\* a classifier that does not count PRAGMA as select-like
determineQueryType_noPragma(query) ==
  LET trimmedQuery == toUpperCase(trim(query)) IN
  [ isSelect |-> \/ startsWith(trimmedQuery, "SELECT")
                 \/ startsWith(trimmedQuery, "WITH"),
    isInsert |-> startsWith(trimmedQuery, "INSERT") ]

determineQueryType(query) ==
  LET trimmedQuery == toUpperCase(trim(query)) IN
  [ isSelect |-> \/ startsWith(trimmedQuery, "SELECT")
                 \/ startsWith(trimmedQuery, "WITH")
                 \/ startsWith(trimmedQuery, "PRAGMA"),
    isInsert |-> startsWith(trimmedQuery, "INSERT") ]

(***************************************************************************)
(* Errors (errors.ts).  An error value is a record; `cause` and `context`  *)
(* are kept only as far as the handlers read them.                         *)
(***************************************************************************)
KnownCodes == { "D1_ERROR", "SQLITE_CONSTRAINT_UNIQUE", "SQLITE_CONSTRAINT_NOTNULL",
                "SQLITE_CONSTRAINT_FOREIGNKEY", "SQLITE_ERROR" }

D1DriverError(name, message, code, query, operation) ==
  [ kind |-> "Error", name |-> name, message |-> Some(message), code |-> Some(code),
    causeMessage |-> Absent, query |-> query, operation |-> operation ]

D1ValidationError(message, operation) ==
  D1DriverError("D1ValidationError", message, "D1_ERROR", Absent, operation)

D1TransactionError(message) ==
  D1DriverError("D1TransactionError", message, "D1_ERROR", Absent, Absent)

D1QueryError(message, code, query) ==
  D1DriverError("D1QueryError", message, code, query, Absent)

(***************************************************************************)
(* D1ErrorHandler.                                                         *)
(***************************************************************************)
mapErrorCode_swapped(errorMessage, defaultCode) ==
  LET lowerMessage == toLowerCase(errorMessage) IN
  IF includes(lowerMessage, "not null constraint") \/ includes(lowerMessage, "not null")
  THEN "SQLITE_CONSTRAINT_NOTNULL"
  ELSE IF includes(lowerMessage, "unique constraint") \/ includes(lowerMessage, "unique")
  THEN "SQLITE_CONSTRAINT_UNIQUE"
  ELSE IF includes(lowerMessage, "foreign key constraint") \/ includes(lowerMessage, "foreign key")
  THEN "SQLITE_CONSTRAINT_FOREIGNKEY"
  ELSE IF \/ includes(lowerMessage, "no such table")
          \/ includes(lowerMessage, "already exists")
          \/ includes(lowerMessage, "duplicate")
  THEN "SQLITE_ERROR"
  ELSE defaultCode

mapErrorCode(errorMessage, defaultCode) ==
  LET lowerMessage == toLowerCase(errorMessage) IN
  IF includes(lowerMessage, "unique constraint") \/ includes(lowerMessage, "unique")
  THEN "SQLITE_CONSTRAINT_UNIQUE"
  ELSE IF includes(lowerMessage, "not null constraint") \/ includes(lowerMessage, "not null")
  THEN "SQLITE_CONSTRAINT_NOTNULL"
  ELSE IF includes(lowerMessage, "foreign key constraint") \/ includes(lowerMessage, "foreign key")
  THEN "SQLITE_CONSTRAINT_FOREIGNKEY"
  ELSE IF \/ includes(lowerMessage, "no such table")
          \/ includes(lowerMessage, "already exists")
          \/ includes(lowerMessage, "duplicate")
  THEN "SQLITE_ERROR"
  ELSE defaultCode

\* A thrown value is [kind, message, causeMessage, code, ...]: kind "Error" is
\* an Error instance, "object" another object, "string" a thrown primitive
\* whose text is in `message`.
extractErrorMessage(error) ==
  IF error.kind = "Error"
  THEN IF IsPresent(error.causeMessage) THEN Get(error.causeMessage)
       ELSE IF IsPresent(error.message) THEN Get(error.message) ELSE ""
  ELSE IF error.kind = "object"
  THEN IF IsPresent(error.causeMessage) THEN Get(error.causeMessage)
       ELSE IF IsPresent(error.message) THEN Get(error.message)
       ELSE "[object Object]"
  ELSE Get(error.message)

buildErrorMessage(errorMessage, query) ==
  LET message == "D1 Error: " \o errorMessage IN
  IF TruthyStr(query)
  THEN LET q == Get(query)
           queryPreview == IF Len(q) > QUERY_PREVIEW_MAX_LENGTH
                           THEN substring(q, 0, QUERY_PREVIEW_MAX_LENGTH) \o "..."
                           ELSE q
       IN message \o "\nQuery: " \o queryPreview
  ELSE message

\* checkD1Error: the error it throws, or Absent when it returns normally
checkD1Error(result, query) ==
  IF ~ result.success /\ TruthyStr(result.error)
  THEN Some(D1QueryError(buildErrorMessage(Get(result.error), query),
                         mapErrorCode(Get(result.error), "D1_ERROR"), query))
  ELSE Absent

\* a wrapper that never reads the embedded code
wrapD1Exception_ignoreCode(error, query) ==
  LET errorMessage == extractErrorMessage(error) IN
  D1QueryError(buildErrorMessage(errorMessage, query),
               mapErrorCode(errorMessage, "D1_ERROR"), query)

wrapD1Exception(error, query) ==
  LET errorMessage == extractErrorMessage(error)
      errorCode == IF /\ error.kind \in {"Error", "object"}
                      /\ IsPresent(error.code)
                      /\ Get(error.code) \in KnownCodes
                   THEN Get(error.code) ELSE "D1_ERROR"
      mappedCode == mapErrorCode(errorMessage, errorCode)
      fullMessage == buildErrorMessage(errorMessage, query)
  IN D1QueryError(fullMessage, mappedCode, query)

(***************************************************************************)
(* Values a caller can pass as a bound parameter.                          *)
(***************************************************************************)
Undefined == [t |-> "undefined"]
Null == [t |-> "null"]
Num(n) == [t |-> "number", v |-> n]

\* parameters.map(p => p === undefined ? null : p)
normalizeParameters_keep(parameters) == parameters

normalizeParameters(parameters) ==
  [i \in 1..Len(parameters) |-> IF parameters[i] = Undefined THEN Null ELSE parameters[i]]

(***************************************************************************)
(* D1QueryRunner: result mapping.                                          *)
(***************************************************************************)
RetUndefined == [kind |-> "undefined"]
RetNumber(n) == [kind |-> "number", v |-> n]
RetRows(rows) == [kind |-> "rows", rows |-> rows]
RetStructured(raw, records, affected) ==
  [kind |-> "structured", raw |-> raw, records |-> records, affected |-> affected]

\* result.results || []
resultsOrEmpty(result) == IF IsPresent(result.results) THEN Get(result.results) ELSE <<>>

mapD1Result_swapped(result, useStructuredResult) ==
  IF useStructuredResult
  THEN RetRows(resultsOrEmpty(result))
  ELSE RetStructured(RetRows(resultsOrEmpty(result)), resultsOrEmpty(result), 0)

mapD1Result(result, useStructuredResult) ==
  IF useStructuredResult
  THEN RetStructured(RetRows(resultsOrEmpty(result)), resultsOrEmpty(result), 0)
  ELSE RetRows(resultsOrEmpty(result))

\* result.meta?.<field>: absent when meta itself is absent
metaField(result, field) ==
  IF IsPresent(result.meta) THEN Get(result.meta)[field] ELSE Absent

mapD1RunResult_changesFirst(result, useStructuredResult, isInsert) ==
  LET lastRowId == OrNum(metaField(result, "last_row_id"), 0)
      affected == OrNum(metaField(result, "changes"),
                        OrNum(metaField(result, "rows_written"), 0))
  IN IF useStructuredResult
     THEN RetStructured(IF isInsert THEN RetNumber(lastRowId) ELSE RetUndefined, <<>>, affected)
     ELSE IF isInsert THEN RetNumber(lastRowId) ELSE RetUndefined

mapD1RunResult(result, useStructuredResult, isInsert) ==
  LET lastRowId == OrNum(metaField(result, "last_row_id"), 0)
      affected == OrNum(metaField(result, "rows_written"),
                        OrNum(metaField(result, "changes"), 0))
  IN IF useStructuredResult
     THEN RetStructured(IF isInsert THEN RetNumber(lastRowId) ELSE RetUndefined, <<>>, affected)
     ELSE IF isInsert THEN RetNumber(lastRowId) ELSE RetUndefined

(***************************************************************************)
(* D1QueryRunner: state of one runner and of one query() call.             *)
(***************************************************************************)
NewRunner ==
  [ isTransactionActive |-> FALSE,
    transactionStatements |-> <<>>,
    transactionBindings |-> <<>> ]

\* the state the tracking fields have after any clean-up (flag assigned
\* false, both arrays truncated with `.length = 0`)
Cleared(runner) ==
  [ runner EXCEPT !.isTransactionActive = FALSE,
                  !.transactionStatements = <<>>,
                  !.transactionBindings = <<>> ]

NoCall == Absent

\* the record of one step: the operation, the runner it ran on, how it ended
\* ("ok", "error", or "pending" for a query() that is suspended), the error
\* thrown, the value returned and, for query(), the call itself
Step(op, r, outcome, error, ret, call) ==
  [ op |-> op, runner |-> r, outcome |-> outcome, error |-> error, ret |-> ret, call |-> call ]

Returns(op, r) == Step(op, r, "ok", Absent, Absent, NoCall)
Throws(op, r, error) == Step(op, r, "error", Some(error), Absent, NoCall)

RemoveAt(seq, i) == SubSeq(seq, 1, i - 1) \o SubSeq(seq, i + 1, Len(seq))

(***************************************************************************)
(* D1Driver.createQueryRunner and D1QueryRunner.release.                   *)
(***************************************************************************)
createQueryRunner ==
  /\ Len(runners) < MaxRunners
  /\ runners' = Append(runners, NewRunner)
  /\ last' = Returns("createQueryRunner", Len(runners) + 1)
  /\ UNCHANGED <<pending, remoteLog, issued, fnIn, fnOut, hostVars>>

releaseState(rs, r) ==
  IF rs[r].isTransactionActive THEN [rs EXCEPT ![r] = Cleared(rs[r])] ELSE rs

release(r) ==
  /\ r \in DOMAIN runners
  /\ runners' = releaseState(runners, r)
  /\ last' = Returns("release", r)
  /\ UNCHANGED <<pending, remoteLog, issued, fnIn, fnOut, hostVars>>

(***************************************************************************)
(* D1QueryRunner: the transaction methods.  None of them awaits, so each   *)
(* runs to completion in one step.                                         *)
(***************************************************************************)
startTransactionState_shared(rs, r) ==
  [i \in DOMAIN rs |-> [ isTransactionActive |-> TRUE,
                         transactionStatements |-> <<>>,
                         transactionBindings |-> <<>> ]]

startTransactionState(rs, r) ==
  [rs EXCEPT ![r] = [ isTransactionActive |-> TRUE,
                      transactionStatements |-> <<>>,
                      transactionBindings |-> <<>> ]]

startTransactionFails_never(runner) == FALSE

startTransactionFails(runner) == runner.isTransactionActive

startTransaction(r) ==
  /\ r \in DOMAIN runners
  /\ IF startTransactionFails(runners[r])
     THEN /\ last' = Throws("startTransaction", r,
                 D1TransactionError("Cannot start transaction: a transaction is already active"))
          /\ UNCHANGED runners
     ELSE /\ runners' = startTransactionState(runners, r)
          /\ last' = Returns("startTransaction", r)
  /\ UNCHANGED <<pending, remoteLog, issued, fnIn, fnOut, hostVars>>

commitTransactionState(rs, r) ==
  [rs EXCEPT ![r] = [ @ EXCEPT !.isTransactionActive = FALSE,
                               !.transactionStatements = <<>>,
                               !.transactionBindings = <<>> ]]

\* a commit that replays the tracked statements as one batch
commitTransaction_replay(r) ==
  /\ r \in DOMAIN runners
  /\ IF ~ runners[r].isTransactionActive
     THEN /\ last' = Throws("commitTransaction", r,
                 D1TransactionError("No active transaction to commit"))
          /\ UNCHANGED <<runners, remoteLog>>
     ELSE /\ runners' = commitTransactionState(runners, r)
          /\ remoteLog' = remoteLog \o
                [ k \in 1..Len(runners[r].transactionStatements) |->
                    [ call |-> "run", text |-> runners[r].transactionStatements[k],
                      values |-> <<>> ] ]
          /\ last' = Returns("commitTransaction", r)
  /\ UNCHANGED <<pending, issued, fnIn, fnOut, hostVars>>

commitTransaction(r) ==
  /\ r \in DOMAIN runners
  /\ IF ~ runners[r].isTransactionActive
     THEN /\ last' = Throws("commitTransaction", r,
                 D1TransactionError("No active transaction to commit"))
          /\ UNCHANGED runners
     ELSE /\ runners' = commitTransactionState(runners, r)
          /\ last' = Returns("commitTransaction", r)
  /\ UNCHANGED <<pending, remoteLog, issued, fnIn, fnOut, hostVars>>

rollbackTransactionState_keepBindings(rs, r) ==
  [rs EXCEPT ![r] = [ @ EXCEPT !.isTransactionActive = FALSE,
                               !.transactionStatements = <<>> ]]

rollbackTransactionState(rs, r) ==
  [rs EXCEPT ![r] = [ @ EXCEPT !.isTransactionActive = FALSE,
                               !.transactionStatements = <<>>,
                               !.transactionBindings = <<>> ]]

rollbackTransaction(r) ==
  /\ r \in DOMAIN runners
  /\ IF ~ runners[r].isTransactionActive
     THEN /\ last' = Throws("rollbackTransaction", r,
                 D1TransactionError("No active transaction to rollback"))
          /\ UNCHANGED runners
     ELSE /\ runners' = rollbackTransactionState(runners, r)
          /\ last' = Returns("rollbackTransaction", r)
  /\ UNCHANGED <<pending, remoteLog, issued, fnIn, fnOut, hostVars>>

(***************************************************************************)
(* D1QueryRunner: the schema operations SQLite/D1 cannot do.  Each throws  *)
(* before reading its arguments.                                           *)
(***************************************************************************)
unsupported(op, r, message) ==
  /\ r \in DOMAIN runners
  /\ last' = Throws(op, r, D1ValidationError(message, Some(op)))
  /\ UNCHANGED <<runners, pending, remoteLog, issued, fnIn, fnOut, hostVars>>

\* a dropColumn that does nothing and reports success
dropColumn_silent(r, tableOrName, columnOrName) ==
  /\ r \in DOMAIN runners
  /\ last' = Returns("dropColumn", r)
  /\ UNCHANGED <<runners, pending, remoteLog, issued, fnIn, fnOut, hostVars>>

dropColumn(r, tableOrName, columnOrName) ==
  unsupported("dropColumn", r, "SQLite/D1 doesn't support DROP COLUMN")

changeColumn(r, tableOrName, oldColumnOrName, newColumn) ==
  unsupported("changeColumn", r, "SQLite/D1 has limited ALTER TABLE support")

renameColumn(r, tableOrName, oldColumnOrName, newColumnName) ==
  unsupported("renameColumn", r, "SQLite/D1 may not support RENAME COLUMN")

dropColumns(r, tableOrName, columns) ==
  unsupported("dropColumns", r, "SQLite/D1 doesn't support DROP COLUMN")

createForeignKey(r, tableOrName, foreignKey) ==
  unsupported("createForeignKey", r,
              "SQLite/D1 doesn't support adding foreign keys to existing tables")

dropForeignKey(r, tableOrName, foreignKeyOrName) ==
  unsupported("dropForeignKey", r, "SQLite/D1 doesn't support dropping foreign keys")

createPrimaryKey(r, tableOrName, columnNames) ==
  unsupported("createPrimaryKey", r,
              "SQLite/D1 doesn't support adding primary keys to existing tables")

dropPrimaryKey(r, tableOrName) ==
  unsupported("dropPrimaryKey", r, "SQLite/D1 doesn't support dropping primary keys")

(***************************************************************************)
(* The remote handle: what it can answer and what it can throw.            *)
(***************************************************************************)
D1Result(success, error, results, meta) ==
  [ success |-> success, error |-> error, results |-> results, meta |-> meta ]

Meta(last_row_id, rows_written, changes) ==
  [ last_row_id |-> last_row_id, rows_written |-> rows_written, changes |-> changes ]

\* a value thrown by the remote handle, in the shape of the error records
Thrown(kind, message, causeMessage, code) ==
  [ kind |-> kind, name |-> "Error", message |-> message, code |-> code,
    causeMessage |-> causeMessage, query |-> Absent, operation |-> Absent ]

ResultResponse(result) == [ kind |-> "result", result |-> Some(result), error |-> Absent ]
ThrowResponse(error) == [ kind |-> "throw", result |-> Absent, error |-> Some(error) ]

\* what prepare() and bind() throw when they reject their argument
PrepareException == Thrown("Error", Some("D1_ERROR: prepare failed"), Absent, Absent)
BindException == Thrown("Error", Some("D1_TYPE_ERROR: Type 'object' not supported"), Absent, Absent)

(***************************************************************************)
(* D1QueryRunner.query and executeQuery.  query() suspends at              *)
(* `await this.connect()`; everything from normalizeQuery to the call of   *)
(* stmt.all() / stmt.run() then runs without suspension; the call resumes  *)
(* when the remote handle answers.                                         *)
(***************************************************************************)
RemoteCall(call, text, values) == [ call |-> call, text |-> text, values |-> values ]

NewCall(r, query, parameters, useStructuredResult) ==
  [ runner |-> r, pc |-> "connect", query |-> query, parameters |-> parameters,
    useStructuredResult |-> useStructuredResult,
    normalizedQuery |-> query, isSelect |-> FALSE, isInsert |-> FALSE,
    trace |-> <<>>, fault |-> "none", response |-> Absent ]

queryCall(r, query, parameters, useStructuredResult) ==
  /\ r \in DOMAIN runners
  /\ issued < MaxQueries
  /\ Len(pending) < MaxPending
  /\ LET c == NewCall(r, query, parameters, useStructuredResult) IN
       /\ pending' = Append(pending, c)
       /\ last' = Step("query", r, "pending", Absent, Absent, Some(c))
  /\ issued' = issued + 1
  /\ UNCHANGED <<runners, remoteLog, fnIn, fnOut, hostVars>>

\* a query() that tracks the statement whatever the flag says
trackStatement_always(runner, normalizedQuery, parameters) ==
  [ runner EXCEPT
      !.transactionStatements = Append(@, normalizedQuery),
      !.transactionBindings =
          Append(@, IF IsPresent(parameters) THEN Get(parameters) ELSE <<>>) ]

\* lines 149-152: track the statement when a transaction is active
trackStatement(runner, normalizedQuery, parameters) ==
  IF runner.isTransactionActive
  THEN [ runner EXCEPT
           !.transactionStatements = Append(@, normalizedQuery),
           !.transactionBindings =
               Append(@, IF IsPresent(parameters) THEN Get(parameters) ELSE <<>>) ]
  ELSE runner

\* line 185: parameters && parameters.length > 0
hasParameters(parameters) == IsPresent(parameters) /\ Len(Get(parameters)) > 0

queryExecute(i, fault) ==
  /\ i \in DOMAIN pending
  /\ pending[i].pc = "connect"
  /\ fault = "bind" => hasParameters(pending[i].parameters)
  /\ LET c == pending[i]
         r == c.runner
         normalizedQuery == normalizeQuery(c.query)
         queryType == determineQueryType(normalizedQuery)
         prepared == <<RemoteCall("prepare", normalizedQuery, <<>>)>>
         bound == IF hasParameters(c.parameters)
                  THEN Append(prepared, RemoteCall("bind", normalizedQuery,
                                                   normalizeParameters(Get(c.parameters))))
                  ELSE prepared
         method == IF queryType.isSelect THEN "all" ELSE "run"
         c1 == [ c EXCEPT !.normalizedQuery = normalizedQuery,
                          !.isSelect = queryType.isSelect,
                          !.isInsert = queryType.isInsert ]
     IN
       /\ runners' = [runners EXCEPT ![r] = trackStatement(@, normalizedQuery, c.parameters)]
       /\ CASE fault = "prepare" ->
                 \* prepare() throws outside the try block: the exception escapes
                 /\ pending' = RemoveAt(pending, i)
                 /\ last' = Step("query", r, "error", Some(PrepareException), Absent,
                                 Some([c1 EXCEPT !.pc = "done", !.trace = prepared,
                                                 !.fault = "prepare"]))
                 /\ remoteLog' = remoteLog \o prepared
            [] fault = "bind" ->
                 \* bind() throws outside the try block: the exception escapes
                 /\ pending' = RemoveAt(pending, i)
                 /\ last' = Step("query", r, "error", Some(BindException), Absent,
                                 Some([c1 EXCEPT !.pc = "done", !.trace = bound,
                                                 !.fault = "bind"]))
                 /\ remoteLog' = remoteLog \o bound
            [] OTHER ->
                 LET c2 == [ c1 EXCEPT !.pc = "remote",
                                       !.trace = Append(bound, RemoteCall(method, normalizedQuery, <<>>)) ]
                 IN /\ pending' = [pending EXCEPT ![i] = c2]
                    /\ remoteLog' = remoteLog \o c2.trace
                    /\ last' = Step("query", r, "pending", Absent, Absent, Some(c2))
  /\ UNCHANGED <<issued, fnIn, fnOut, hostVars>>

\* lines 191-205: the outcome of executeQuery once the remote handle has
\* answered: <<error>> or <<>> and the value returned
executeQueryOutcome(c, response) ==
  LET query == Some(c.normalizedQuery) IN
  IF response.kind = "throw"
  THEN [ error |-> Some(wrapD1Exception(Get(response.error), query)), ret |-> Absent ]
  ELSE LET result == Get(response.result)
           thrown == checkD1Error(result, query)
       IN IF IsPresent(thrown)
          \* thrown inside the try block, so the catch clause wraps it again
          THEN [ error |-> Some(wrapD1Exception(Get(thrown), query)), ret |-> Absent ]
          ELSE [ error |-> Absent,
                 ret |-> Some(IF c.isSelect
                              THEN mapD1Result(result, c.useStructuredResult)
                              ELSE mapD1RunResult(result, c.useStructuredResult, c.isInsert)) ]

queryComplete(i, response) ==
  /\ i \in DOMAIN pending
  /\ pending[i].pc = "remote"
  /\ LET c == pending[i]
         out == executeQueryOutcome(c, response)
         c1 == [ c EXCEPT !.pc = "done", !.response = Some(response) ]
     IN /\ pending' = RemoveAt(pending, i)
        /\ last' = Step("query", c.runner,
                        IF IsPresent(out.error) THEN "error" ELSE "ok",
                        out.error, out.ret, Some(c1))
  /\ UNCHANGED <<runners, remoteLog, issued, fnIn, fnOut, hostVars>>

(***************************************************************************)
(* JavaScript values a configuration can hold as `database`.  `type` is    *)
(* what typeof reports, except that null has its own tag; the three        *)
(* members hold what typeof reports on that property.                      *)
(***************************************************************************)
Value(type, truthy, prepare, batch, exec) ==
  [ type |-> type, truthy |-> truthy, prepare |-> prepare, batch |-> batch, exec |-> exec ]

typeof(value) == IF value.type = "null" THEN "object" ELSE value.type

UndefinedValue == Value("undefined", FALSE, "undefined", "undefined", "undefined")
NullValue == Value("null", FALSE, "undefined", "undefined", "undefined")

\* connection.options: `driver` is absent or an object whose `database`
\* member is a value (UndefinedValue when the member is missing)
Options(driverOptions) == [ driver |-> driverOptions ]

(***************************************************************************)
(* D1Guards.isD1Database and the D1Driver constructor.                     *)
(***************************************************************************)
isD1Database_noExec(value) ==
  /\ typeof(value) = "object"
  /\ value.type # "null"
  /\ value.prepare = "function"
  /\ value.batch = "function"

isD1Database(value) ==
  /\ typeof(value) = "object"
  /\ value.type # "null"
  /\ value.prepare = "function"
  /\ value.batch = "function"
  /\ value.exec = "function"

D1ConnectionError(message) ==
  D1DriverError("D1ConnectionError", message, "D1_ERROR", Absent, Absent)

\* the constructor: the error it throws, or the driver it leaves behind
D1Driver(options) ==
  LET driverOptions == options.driver IN
  IF ~ (IsPresent(driverOptions) /\ Get(driverOptions).database.truthy)
  THEN [ error |-> Some(D1ValidationError(
                        "D1 database instance must be provided in driver options", Absent)),
         driver |-> Absent ]
  ELSE IF ~ isD1Database(Get(driverOptions).database)
  THEN [ error |-> Some(D1ValidationError("Invalid D1 database instance", Absent)),
         driver |-> Absent ]
  ELSE [ error |-> Absent, driver |-> Some([ options |-> options ]) ]

\* new D1Driver(connection)
newD1Driver(options) ==
  /\ LET made == D1Driver(options) IN
       /\ driver' = made.driver
       /\ last' = Step("new D1Driver", 0, IF IsPresent(made.error) THEN "error" ELSE "ok",
                       made.error, Absent, Some(options))
  /\ UNCHANGED <<runners, pending, remoteLog, issued, fnIn, fnOut, registry, factoryCreate,
                 registrations, afterConnects, lookups>>

(***************************************************************************)
(* D1DriverRegistry: the patch of DriverFactory.prototype.create.  A       *)
(* function is named by a string: the host's own method or the patch.      *)
(***************************************************************************)
OriginalCreate == "DriverFactory.prototype.create"
PatchedCreate == "D1DriverRegistry patch"

\* register(): the static fields and the host method afterwards.  This one
\* saves the host method again on a nested call.
registerState_resave(reg, create) ==
  [ registry |-> [ isRegistered |-> TRUE, originalCreate |-> Some(create),
                   registrationCount |-> reg.registrationCount + 1 ],
    create |-> PatchedCreate ]

registerState(reg, create) ==
  IF reg.isRegistered
  THEN [ registry |-> [ reg EXCEPT !.registrationCount = @ + 1 ], create |-> create ]
  ELSE [ registry |-> [ isRegistered |-> TRUE, originalCreate |-> Some(create),
                        registrationCount |-> 1 ],
         create |-> PatchedCreate ]

register ==
  /\ registry.registrationCount < MaxRegistrations
  /\ LET after == registerState(registry, factoryCreate) IN
       /\ registry' = after.registry
       /\ factoryCreate' = after.create
  /\ registrations' = registrations + 1
  /\ last' = Returns("register", 0)
  /\ UNCHANGED <<runners, pending, remoteLog, issued, fnIn, fnOut, driver, afterConnects, lookups>>

unregisterState(reg, create) ==
  IF ~ reg.isRegistered
  THEN [ registry |-> reg, create |-> create ]
  ELSE IF reg.registrationCount - 1 <= 0
  THEN [ registry |-> [ isRegistered |-> FALSE, originalCreate |-> Absent,
                        registrationCount |-> 0 ],
         create |-> IF IsPresent(reg.originalCreate) THEN Get(reg.originalCreate) ELSE create ]
  ELSE [ registry |-> [ reg EXCEPT !.registrationCount = @ - 1 ], create |-> create ]

unregister ==
  /\ LET after == unregisterState(registry, factoryCreate) IN
       /\ registry' = after.registry
       /\ factoryCreate' = after.create
  /\ registrations' = IF registrations > 0 THEN registrations - 1 ELSE 0
  /\ last' = Returns("unregister", 0)
  /\ UNCHANGED <<runners, pending, remoteLog, issued, fnIn, fnOut, driver, afterConnects, lookups>>

\* a call of the function `create` as DriverFactory.prototype.create with
\* the static fields `reg`: which function produced the result, and the result
callCreate(create, reg, options) ==
  LET driverOptions == options.driver
      isD1 == /\ IsPresent(driverOptions)
              /\ Get(driverOptions).database.truthy
              /\ Get(driverOptions).database.prepare = "function"
  IN IF create = PatchedCreate /\ isD1
     THEN [ by |-> "D1Driver" ] @@ D1Driver(options)
     ELSE IF create = OriginalCreate \/ IsPresent(reg.originalCreate)
     THEN [ by |-> OriginalCreate, error |-> Absent, driver |-> Absent ]
     ELSE [ by |-> PatchedCreate, driver |-> Absent,
            error |-> Some(D1ConnectionError(
               "DriverFactory.create() called but no original implementation available")) ]

\* new DriverFactory().create(connection)
create(options) ==
  /\ LET made == callCreate(factoryCreate, registry, options) IN
       /\ driver' = made.driver
       /\ last' = Step("create", 0, IF IsPresent(made.error) THEN "error" ELSE "ok",
                       made.error, Some(made.by), Some(options))
  /\ UNCHANGED <<runners, pending, remoteLog, issued, fnIn, fnOut, registry, factoryCreate,
                 registrations, afterConnects, lookups>>

\* createD1DataSource(options): register, then the DataSource constructor
\* asks the driver factory for the driver
createD1DataSource(database) ==
  /\ registry.registrationCount < MaxRegistrations
  /\ LET after == registerState(registry, factoryCreate)
         options == Options(Some([ database |-> database ]))
         made == callCreate(after.create, after.registry, options)
     IN /\ registry' = after.registry
        /\ factoryCreate' = after.create
        /\ driver' = made.driver
        /\ last' = Step("createD1DataSource", 0,
                        IF IsPresent(made.error) THEN "error" ELSE "ok",
                        made.error, Some(made.by), Some(options))
  /\ registrations' = registrations + 1
  /\ UNCHANGED <<runners, pending, remoteLog, issued, fnIn, fnOut, afterConnects, lookups>>

(***************************************************************************)
(* More string helpers: replace-all, join, decimal digits.                 *)
(***************************************************************************)
\* s.replace(/<from>/g, to) for a literal, non-empty `from`
RECURSIVE replaceAll(_, _, _)
replaceAll(s, from, to) ==
  IF Len(s) < Len(from) THEN s
  ELSE IF SubSeq(s, 1, Len(from)) = from
  THEN to \o replaceAll(SubSeq(s, Len(from) + 1, Len(s)), from, to)
  ELSE CharAt(s, 1) \o replaceAll(SubSeq(s, 2, Len(s)), from, to)

\* parts.join(sep)
RECURSIVE join(_, _)
join(parts, sep) ==
  IF Len(parts) = 0 THEN ""
  ELSE IF Len(parts) = 1 THEN parts[1]
  ELSE parts[1] \o sep \o join(Tail(parts), sep)

Digits == "0123456789"

IsDigit(c) == \E i \in 1..Len(Digits) : CharAt(Digits, i) = c

DigitValue(c) == (CHOOSE i \in 1..Len(Digits) : CharAt(Digits, i) = c) - 1

\* the decimal digits of a natural number
RECURSIVE ToDecimal(_)
ToDecimal(n) ==
  IF n < 10 THEN CharAt(Digits, n + 1)
  ELSE ToDecimal(n \div 10) \o CharAt(Digits, (n % 10) + 1)

\* the natural number a non-empty string of digits denotes
RECURSIVE FromDecimal(_)
FromDecimal(digits) ==
  IF Len(digits) = 0 THEN 0
  ELSE 10 * FromDecimal(SubSeq(digits, 1, Len(digits) - 1))
         + DigitValue(CharAt(digits, Len(digits)))

AllDigits(s) == Len(s) > 0 /\ \A i \in 1..Len(s) : IsDigit(CharAt(s, i))

(***************************************************************************)
(* Values a column default can hold.  A number keeps its sign, its whole   *)
(* part, the digits of its fraction and, for the numbers JavaScript prints *)
(* in exponent notation, the exponent (0 otherwise).                       *)
(***************************************************************************)
Str(s) == [t |-> "string", v |-> s]
Bool(b) == [t |-> "boolean", b |-> b]
Number(neg, whole, frac, exp) ==
  [t |-> "number", neg |-> neg, whole |-> whole, frac |-> frac, exp |-> exp]

\* String(n) for a number n
numberToString(n) ==
  LET mantissa == (IF n.neg THEN "-" ELSE "") \o ToDecimal(n.whole)
                    \o (IF n.frac = "" THEN "" ELSE "." \o n.frac)
  IN IF n.exp = 0 THEN mantissa
     ELSE mantissa \o "e" \o (IF n.exp < 0 THEN "-" ELSE "+")
                   \o ToDecimal(IF n.exp < 0 THEN 0 - n.exp ELSE n.exp)

(***************************************************************************)
(* D1QueryRunner: generation of CREATE TABLE text.                         *)
(***************************************************************************)
\* column metadata as far as the generator reads it; generationStrategy and
\* default are optional
Column(name, type, isPrimary, isUnique, isNullable, isGenerated, generationStrategy, default) ==
  [ name |-> name, type |-> type, isPrimary |-> isPrimary, isUnique |-> isUnique,
    isNullable |-> isNullable, isGenerated |-> isGenerated,
    generationStrategy |-> generationStrategy, default |-> default ]

Table(name, columns) == [ name |-> name, columns |-> columns ]

escape(name) == "\"" \o replaceAll(name, "\"", "\"\"") \o "\""

typeMap ==
  [ int |-> "INTEGER", integer |-> "INTEGER", bigint |-> "INTEGER", smallint |-> "INTEGER",
    tinyint |-> "INTEGER", float |-> "REAL", double |-> "REAL", real |-> "REAL",
    decimal |-> "REAL", numeric |-> "REAL", boolean |-> "INTEGER", bool |-> "INTEGER",
    text |-> "TEXT", string |-> "TEXT", varchar |-> "TEXT", char |-> "TEXT",
    blob |-> "BLOB", date |-> "TEXT", datetime |-> "TEXT", timestamp |-> "TEXT",
    time |-> "TEXT" ]

normalizeType(column) ==
  LET type == toLowerCase(column.type) IN
  IF type \in DOMAIN typeMap THEN typeMap[type] ELSE toUpperCase(column.type)

normalizeDefault(defaultValue) ==
  CASE defaultValue.t = "string" -> "'" \o replaceAll(defaultValue.v, "'", "''") \o "'"
    [] defaultValue.t = "number" -> numberToString(defaultValue)
    [] defaultValue.t = "boolean" -> IF defaultValue.b THEN "1" ELSE "0"
    [] defaultValue.t = "null" -> "NULL"
    [] OTHER -> "undefined"

buildCreateColumnSql(column, isCompositePrimary) ==
  LET type == normalizeType(column)
      increment == column.isGenerated /\ column.generationStrategy = Some("increment")
      plain == escape(column.name) \o " " \o type
      keyed == IF column.isPrimary /\ increment /\ ~ isCompositePrimary
               THEN IF type = "INTEGER"
                    THEN escape(column.name) \o " INTEGER PRIMARY KEY AUTOINCREMENT"
                    ELSE escape(column.name) \o " " \o type \o " PRIMARY KEY"
               ELSE IF /\ column.isPrimary
                       /\ ~ TruthyStr(column.generationStrategy)
                       /\ ~ isCompositePrimary
               THEN plain \o " PRIMARY KEY"
               ELSE plain
      unique == IF column.isUnique /\ ~ column.isPrimary THEN " UNIQUE" ELSE ""
      notNull == IF ~ column.isNullable /\ ~ column.isPrimary THEN " NOT NULL" ELSE ""
      default == IF /\ IsPresent(column.default)
                    /\ Get(column.default) # Null
                    /\ ~ increment
                 THEN " DEFAULT " \o normalizeDefault(Get(column.default))
                 ELSE ""
  IN keyed \o unique \o notNull \o default

IsPrimaryColumn(col) == col.isPrimary

\* a generator that honours the caller's ifNotExist
buildCreateTableSql_optional(table, ifNotExist) ==
  LET primaryKeys == SelectSeq(table.columns, IsPrimaryColumn)
      isCompositePrimary == Len(primaryKeys) > 1
      columns == join([ i \in DOMAIN table.columns |->
                          buildCreateColumnSql(table.columns[i], isCompositePrimary) ], ", ")
      pkColumns == join([ i \in DOMAIN primaryKeys |-> escape(primaryKeys[i].name) ], ", ")
  IN "CREATE TABLE " \o (IF ifNotExist = Some(TRUE) THEN "IF NOT EXISTS " ELSE "")
       \o escape(table.name) \o " (" \o columns
       \o (IF isCompositePrimary THEN ", PRIMARY KEY (" \o pkColumns \o ")" ELSE "")
       \o ")"

buildCreateTableSql(table, ifNotExist) ==
  LET primaryKeys == SelectSeq(table.columns, IsPrimaryColumn)
      isCompositePrimary == Len(primaryKeys) > 1
      columns == join([ i \in DOMAIN table.columns |->
                          buildCreateColumnSql(table.columns[i], isCompositePrimary) ], ", ")
      pkColumns == join([ i \in DOMAIN primaryKeys |-> escape(primaryKeys[i].name) ], ", ")
  IN "CREATE TABLE IF NOT EXISTS " \o escape(table.name) \o " (" \o columns
       \o (IF isCompositePrimary THEN ", PRIMARY KEY (" \o pkColumns \o ")" ELSE "")
       \o ")"

(***************************************************************************)
(* Regular-expression pieces the MetadataParser uses: \s, \w, a run of     *)
(* white space, key words separated by white space.                        *)
(***************************************************************************)
IsWordChar(c) == c \in LowerLetters \/ c \in UpperLetters \/ IsDigit(c) \/ c = "_"

IsLineEnd(c) == c \in { "\n", "\r" }

\* the first index at or after i that holds no white space (Len(s) + 1 if none)
RECURSIVE skipSpaces(_, _)
skipSpaces(s, i) ==
  IF i <= Len(s) /\ IsSpace(CharAt(s, i)) THEN skipSpaces(s, i + 1) ELSE i

\* the first index at or after i that holds no word character
RECURSIVE skipWord(_, _)
skipWord(s, i) ==
  IF i <= Len(s) /\ IsWordChar(CharAt(s, i)) THEN skipWord(s, i + 1) ELSE i

\* the literal `word` (upper case) at index i, any case: the index after it, or 0
matchWord(s, i, word) ==
  IF /\ i + Len(word) - 1 <= Len(s)
     /\ toUpperCase(SubSeq(s, i, i + Len(word) - 1)) = word
  THEN i + Len(word) ELSE 0

\* /W1\s+W2\s+...Wn/i at index i: the index after the last word, or 0
RECURSIVE matchWords(_, _, _)
matchWords(s, i, words) ==
  LET j == matchWord(s, i, Head(words)) IN
  IF j = 0 THEN 0
  ELSE IF Len(words) = 1 THEN j
  ELSE IF j <= Len(s) /\ IsSpace(CharAt(s, j))
  THEN matchWords(s, skipSpaces(s, j), Tail(words))
  ELSE 0

\* /W1\s+...Wn\s+/i at index i: the index after the trailing white space, or 0
matchWordsSpace(s, i, words) ==
  LET j == matchWords(s, i, words) IN
  IF j # 0 /\ j <= Len(s) /\ IsSpace(CharAt(s, j)) THEN skipSpaces(s, j) ELSE 0

\* /W1\s+...Wn/i.test(s)
testWords(s, words) == \E i \in 1..Len(s) : matchWords(s, i, words) # 0

endsWith(s, t) == Len(s) >= Len(t) /\ SubSeq(s, Len(s) - Len(t) + 1, Len(s)) = t

(***************************************************************************)
(* MetadataParser.                                                         *)
(***************************************************************************)
MetadataParser_typeMap ==
  [ INTEGER |-> "int", REAL |-> "float", TEXT |-> "text", BLOB |-> "blob",
    NUMERIC |-> "numeric" ]

MetadataParser_normalizeType(sqliteType) ==
  LET upper == toUpperCase(sqliteType) IN
  IF upper \in DOMAIN MetadataParser_typeMap
  THEN MetadataParser_typeMap[upper] ELSE toLowerCase(sqliteType)

\* parseFloat drops the zeros that end a fraction
RECURSIVE stripZeros(_)
stripZeros(frac) ==
  IF Len(frac) > 0 /\ CharAt(frac, Len(frac)) = "0"
  THEN stripZeros(SubSeq(frac, 1, Len(frac) - 1)) ELSE frac

\* /^-?\d+$/ and /^-?\d+\.\d+$/
Unsigned(text) == IF startsWith(text, "-") THEN SubSeq(text, 2, Len(text)) ELSE text

IsIntegerText(text) == AllDigits(Unsigned(text))

DotIndex(text) == CHOOSE i \in 1..Len(text) : CharAt(text, i) = "."

IsFloatText(text) ==
  LET u == Unsigned(text) IN
  /\ includes(u, ".")
  /\ AllDigits(SubSeq(u, 1, DotIndex(u) - 1))
  /\ AllDigits(SubSeq(u, DotIndex(u) + 1, Len(u)))

parseDefaultValue(value) ==
  LET trimmed == trim(value)
      u == Unsigned(trimmed)
  IN IF toUpperCase(trimmed) = "NULL" THEN Null
     ELSE IF \/ startsWith(trimmed, "'") /\ endsWith(trimmed, "'")
             \/ startsWith(trimmed, "\"") /\ endsWith(trimmed, "\"")
     THEN Str(replaceAll(SubSeq(trimmed, 2, Len(trimmed) - 1), "''", "'"))
     ELSE IF IsIntegerText(trimmed)
     THEN Number(startsWith(trimmed, "-"), FromDecimal(u), "", 0)
     ELSE IF IsFloatText(trimmed)
     THEN Number(startsWith(trimmed, "-"), FromDecimal(SubSeq(u, 1, DotIndex(u) - 1)),
                 stripZeros(SubSeq(u, DotIndex(u) + 1, Len(u))), 0)
     ELSE IF trimmed = "0" \/ trimmed = "1" THEN Bool(trimmed = "1")
     ELSE Str(trimmed)

\* splitColumnDefinitions walks the text once, counting "(" up and ")" down,
\* and cuts at every "," met at depth 0: depthAt is the counter on reaching
\* index k, topLevelCommas the cuts
depthAt(definitions, k) ==
  Cardinality({ j \in 1..(k - 1) : CharAt(definitions, j) = "(" })
    - Cardinality({ j \in 1..(k - 1) : CharAt(definitions, j) = ")" })

topLevelCommas(definitions) ==
  { k \in 1..Len(definitions) : CharAt(definitions, k) = "," /\ depthAt(definitions, k) = 0 }

splitColumnDefinitions(definitions) ==
  LET commas == topLevelCommas(definitions)
      m == Cardinality(commas)
      cut(k) == IF k = 0 THEN 0
                ELSE IF k = m + 1 THEN Len(definitions) + 1
                ELSE CHOOSE x \in commas : Cardinality({ y \in commas : y < x }) = k - 1
      piece(k) == trim(SubSeq(definitions, cut(k - 1) + 1, cut(k) - 1))
      pushed == [ k \in 1..m |-> piece(k) ]
  IN IF piece(m + 1) # "" THEN Append(pushed, piece(m + 1)) ELSE pushed

\* /^"?(.+?)"?\s+(\w+)/ : the ends of group 1 that let the rest match, for
\* group 1 starting at `from`; after(e) is the index of the first word
\* character of group 2
ColumnTypeStart(definition, e) ==
  LET a == IF e + 1 <= Len(definition) /\ CharAt(definition, e + 1) = "\"" THEN e + 2 ELSE e + 1
      b == skipSpaces(definition, a)
  IN IF b > a /\ b <= Len(definition) /\ IsWordChar(CharAt(definition, b)) THEN b ELSE 0

ColumnNameEnds(definition, from) ==
  { e \in from..Len(definition) :
      /\ \A k \in from..e : ~ IsLineEnd(CharAt(definition, k))
      /\ ColumnTypeStart(definition, e) # 0 }

Min(S) == CHOOSE x \in S : \A y \in S : x <= y
Max(S) == CHOOSE x \in S : \A y \in S : x >= y

\* /DEFAULT\s+(.+?)(?:\s|$)/i : group 1 of the leftmost match, if any
DefaultStarts(definition) ==
  { i \in 1..Len(definition) :
      LET j == matchWord(definition, i, "DEFAULT") IN
      /\ j # 0
      /\ j <= Len(definition)
      /\ IsSpace(CharAt(definition, j))
      /\ LET q == skipSpaces(definition, j) IN
           \/ q <= Len(definition)
           \/ q - j >= 2 /\ ~ IsLineEnd(CharAt(definition, Len(definition))) }

defaultMatch(definition) ==
  IF DefaultStarts(definition) = {} THEN Absent
  ELSE LET j == Min(DefaultStarts(definition)) + 7
           q == skipSpaces(definition, j)
       IN IF q > Len(definition) THEN Some(CharAt(definition, Len(definition)))
          ELSE LET r == Min({ k \in q..Len(definition) :
                                k = Len(definition) \/ IsSpace(CharAt(definition, k + 1)) })
               IN Some(SubSeq(definition, q, r))

\* null (Absent) when the pattern does not match
parseColumnDefinition(definition) ==
  LET quoted == Len(definition) > 0 /\ CharAt(definition, 1) = "\""
      from == IF quoted /\ ColumnNameEnds(definition, 2) # {} THEN 2 ELSE 1
      ends == ColumnNameEnds(definition, from)
  IN IF ends = {} THEN Absent
     ELSE LET e == Min(ends)
              b == ColumnTypeStart(definition, e)
              columnName == replaceAll(SubSeq(definition, from, e), "\"", "")
              type == toUpperCase(SubSeq(definition, b, skipWord(definition, b) - 1))
              isPrimary == testWords(definition, <<"PRIMARY", "KEY">>)
              isUnique == testWords(definition, <<"UNIQUE">>) /\ ~ isPrimary
              isNullable == ~ testWords(definition, <<"NOT", "NULL">>)
              isGenerated == testWords(definition, <<"AUTOINCREMENT">>)
              default == defaultMatch(definition)
          IN Some(Column(columnName, MetadataParser_normalizeType(type), isPrimary, isUnique,
                         isNullable, isGenerated,
                         IF isGenerated THEN Some("increment") ELSE Absent,
                         IF IsPresent(default) THEN Some(parseDefaultValue(Get(default)))
                         ELSE Absent))

IsTableConstraint(trimmed) ==
  \/ startsWith(toUpperCase(trimmed), "PRIMARY KEY")
  \/ startsWith(toUpperCase(trimmed), "FOREIGN KEY")
  \/ startsWith(toUpperCase(trimmed), "UNIQUE")
  \/ startsWith(toUpperCase(trimmed), "CHECK")

RECURSIVE parseParts(_)
parseParts(parts) ==
  IF Len(parts) = 0 THEN <<>>
  ELSE LET trimmed == trim(Head(parts)) IN
       IF IsTableConstraint(trimmed) THEN parseParts(Tail(parts))
       ELSE parseColumnDefinition(trimmed) \o parseParts(Tail(parts))

parseColumns(columnDefinitions) == parseParts(splitColumnDefinitions(columnDefinitions))

\* sql.replace(/^CREATE\s+TABLE\s+(IF\s+NOT\s+EXISTS\s+)?/i, "").trim()
stripCreateTable(sql) ==
  LET j == matchWordsSpace(sql, 1, <<"CREATE", "TABLE">>)
      k == IF j = 0 THEN 0 ELSE matchWordsSpace(sql, j, <<"IF", "NOT", "EXISTS">>)
  IN trim(IF j = 0 THEN sql ELSE SubSeq(sql, IF k = 0 THEN j ELSE k, Len(sql)))

\* /^"?(.+?)"?\s*\((.+)\)/s : the index of the "(" for group 1 ending at e, or 0
TableBodyStart(text, e) ==
  LET a == IF e + 1 <= Len(text) /\ CharAt(text, e + 1) = "\"" THEN e + 2 ELSE e + 1
      b == skipSpaces(text, a)
  IN IF /\ b <= Len(text)
        /\ CharAt(text, b) = "("
        /\ \E c \in (b + 2)..Len(text) : CharAt(text, c) = ")"
     THEN b ELSE 0

TableNameEnds(text, from) == { e \in from..Len(text) : TableBodyStart(text, e) # 0 }

\* where group 1 starts: after the optional quote when the rest can still match
TableNameFrom(normalizedSql) ==
  IF /\ Len(normalizedSql) > 0
     /\ CharAt(normalizedSql, 1) = "\""
     /\ TableNameEnds(normalizedSql, 2) # {}
  THEN 2 ELSE 1

\* lines 36-54: the table built from the match; group 1 is from..e, group 2
\* runs from the "(" at b to the last ")" of the text
tableOfMatch(normalizedSql, from, e, b) ==
  LET close == Max({ c \in (b + 2)..Len(normalizedSql) : CharAt(normalizedSql, c) = ")" })
      extractedTableName == replaceAll(SubSeq(normalizedSql, from, e), "\"", "")
      columnDefinitions == SubSeq(normalizedSql, b + 1, close - 1)
  IN [ error |-> Absent,
       table |-> Some(Table(extractedTableName, parseColumns(columnDefinitions))) ]

\* lines 25-34: normalizedSql.match(...), and the throw when there is no match
matchTable(normalizedSql, from, ends) ==
  IF ends = {}
  THEN [ error |-> Some(D1ValidationError("Invalid CREATE TABLE SQL", Absent)),
         table |-> Absent ]
  ELSE tableOfMatch(normalizedSql, from, Min(ends), TableBodyStart(normalizedSql, Min(ends)))

parseNormalizedSql(normalizedSql, from) ==
  matchTable(normalizedSql, from, TableNameEnds(normalizedSql, from))

\* the table parsed, or the validation error thrown
parseTableSql(sql, tableName) ==
  parseNormalizedSql(stripCreateTable(sql), TableNameFrom(stripCreateTable(sql)))

\* createTable(table, ifNotExist): await this.query(sql); the call then
\* proceeds as any query() call does
createTable(r, table, ifNotExist) ==
  /\ r \in DOMAIN runners
  /\ issued < MaxQueries
  /\ Len(pending) < MaxPending
  /\ LET sql == buildCreateTableSql(table, ifNotExist)
         c == NewCall(r, sql, Absent, FALSE)
     IN /\ pending' = Append(pending, c)
        /\ last' = Step("createTable", r, "pending", Absent, Absent, Some(c))
  /\ fnIn' = Some([ table |-> table, ifNotExist |-> ifNotExist ])
  /\ issued' = issued + 1
  /\ UNCHANGED <<runners, remoteLog, fnOut, hostVars>>

(***************************************************************************)
(* D1Driver.afterConnect: a throw-away query runner, one statement through *)
(* it, release() in the finally block.  The call suspends at               *)
(* `await queryRunner.query(...)`; once that promise settles, the finally  *)
(* block runs before anything else does.                                   *)
(***************************************************************************)
ForeignKeysOn == "PRAGMA foreign_keys = ON"

AfterConnectCall(r) == [ runner |-> r, pc |-> "query", released |-> FALSE, error |-> Absent ]

afterConnect ==
  /\ Len(afterConnects) < MaxConnects
  /\ Len(runners) < MaxRunners
  /\ issued < MaxQueries
  /\ Len(pending) < MaxPending
  /\ LET r == Len(runners) + 1
         c == NewCall(r, ForeignKeysOn, Absent, FALSE)
     IN /\ runners' = Append(runners, NewRunner)
        /\ pending' = Append(pending, c)
        /\ afterConnects' = Append(afterConnects, AfterConnectCall(r))
        /\ last' = Step("afterConnect", r, "pending", Absent, Absent, Some(c))
  /\ issued' = issued + 1
  /\ UNCHANGED <<remoteLog, fnIn, fnOut, driver, registry, factoryCreate, registrations, lookups>>

\* the query() of an afterConnect call has settled and its finally block has
\* not run yet
Settled(k) ==
  /\ afterConnects[k].pc = "query"
  /\ \A i \in DOMAIN pending : pending[i].runner # afterConnects[k].runner

Settling == \E k \in DOMAIN afterConnects : Settled(k)

\* an afterConnect written with `try { ... }` and no finally block
afterConnectFinally_onSuccess(k) ==
  /\ k \in DOMAIN afterConnects
  /\ Settled(k)
  /\ LET r == afterConnects[k].runner IN
       /\ last.op = "query" /\ last.runner = r /\ last.outcome # "pending"
       /\ runners' = IF last.outcome = "ok" THEN releaseState(runners, r) ELSE runners
       /\ afterConnects' = [afterConnects EXCEPT ![k] =
                              [@ EXCEPT !.pc = "done", !.released = (last.outcome = "ok"),
                                        !.error = last.error]]
       /\ last' = Step("afterConnect", r, last.outcome, last.error, Absent, last.call)
  /\ UNCHANGED <<pending, remoteLog, issued, fnIn, fnOut, driver, registry, factoryCreate,
                 registrations, lookups>>

\* lines 138-140: `finally { await queryRunner.release(); }`, then the
\* outcome of query() becomes the outcome of afterConnect
afterConnectFinally(k) ==
  /\ k \in DOMAIN afterConnects
  /\ Settled(k)
  /\ LET r == afterConnects[k].runner IN
       /\ last.op = "query" /\ last.runner = r /\ last.outcome # "pending"
       /\ runners' = releaseState(runners, r)
       /\ afterConnects' = [afterConnects EXCEPT ![k] =
                              [@ EXCEPT !.pc = "done", !.released = TRUE,
                                        !.error = last.error]]
       /\ last' = Step("afterConnect", r, last.outcome, last.error, Absent, last.call)
  /\ UNCHANGED <<pending, remoteLog, issued, fnIn, fnOut, driver, registry, factoryCreate,
                 registrations, lookups>>

(***************************************************************************)
(* D1QueryRunner.getTable and getTables.  Each makes one query() call on   *)
(* sqlite_master and suspends until it settles; the rows are then turned   *)
(* into tables by MetadataParser.parseTableSql.  A row is {name, sql}; an  *)
(* empty sql stands for every falsy value.                                 *)
(***************************************************************************)
Row(name, sql) == [ name |-> name, sql |-> sql ]

RetTable(table) == [ kind |-> "table", table |-> table ]
RetTables(tables) == [ kind |-> "tables", tables |-> tables ]

getTableQuery == "SELECT name, sql FROM sqlite_master WHERE type='table' AND name = ?"

\* tableNames.map(() => '?').join(',')
getTablesQuery(tableNames) ==
  IF IsPresent(tableNames)
  THEN "SELECT name, sql FROM sqlite_master WHERE type='table' AND name IN ("
         \o join([i \in 1..Len(Get(tableNames)) |-> "?"], ",") \o ")"
  ELSE "SELECT name, sql FROM sqlite_master WHERE type='table' AND name NOT LIKE 'sqlite_%'"

Lookup(op, r, c) == [ op |-> op, runner |-> r, call |-> c ]

getTable(r, tableName) ==
  /\ r \in DOMAIN runners
  /\ issued < MaxQueries
  /\ Len(pending) < MaxPending
  /\ LET c == NewCall(r, getTableQuery, Some(<<Str(tableName)>>), FALSE) IN
       /\ pending' = Append(pending, c)
       /\ lookups' = Append(lookups, Lookup("getTable", r, c))
       /\ last' = Step("getTable", r, "pending", Absent, Absent, Some(c))
  /\ issued' = issued + 1
  /\ UNCHANGED <<runners, remoteLog, fnIn, fnOut, driver, registry, factoryCreate,
                 registrations, afterConnects>>

getTables(r, tableNames) ==
  /\ r \in DOMAIN runners
  /\ issued < MaxQueries
  /\ Len(pending) < MaxPending
  /\ LET parameters == IF IsPresent(tableNames)
                       THEN Some([i \in 1..Len(Get(tableNames)) |-> Str(Get(tableNames)[i])])
                       ELSE Absent
         c == NewCall(r, getTablesQuery(tableNames), parameters, FALSE)
     IN /\ pending' = Append(pending, c)
        /\ lookups' = Append(lookups, Lookup("getTables", r, c))
        /\ last' = Step("getTables", r, "pending", Absent, Absent, Some(c))
  /\ issued' = issued + 1
  /\ UNCHANGED <<runners, remoteLog, fnIn, fnOut, driver, registry, factoryCreate,
                 registrations, afterConnects>>

\* try { parseTableSql(...) } catch { console.warn(...) }: the tables the
\* try block yields, none when parseTableSql throws
caught(parsed) == IF IsPresent(parsed.error) THEN <<>> ELSE <<Get(parsed.table)>>

\* lines 388-395: the tables one row adds to the result
parseRow(tableRow) ==
  IF tableRow.sql = "" THEN <<>> ELSE caught(parseTableSql(tableRow.sql, tableRow.name))

\* lines 351-365: what getTable returns for the value query() returned
optionalTable(tables) == IF tables = <<>> THEN RetUndefined ELSE RetTable(tables[1])

getTableResult(result) ==
  IF result.kind # "rows" \/ Len(result.rows) = 0 THEN RetUndefined
  ELSE optionalTable(parseRow(result.rows[1]))

\* lines 386-396: the loop over the rows
RECURSIVE parseRows(_)
parseRows(rows) ==
  IF rows = <<>> THEN <<>>
  ELSE parseRow(Head(rows)) \o parseRows(Tail(rows))

\* a loop that ends at the first row that adds no table
getTablesResult_stopAtFailure(result) ==
  IF result.kind # "rows" THEN RetTables(<<>>)
  ELSE LET failures == { i \in DOMAIN result.rows : parseRow(result.rows[i]) = <<>> }
           n == IF failures = {} THEN Len(result.rows) ELSE Min(failures) - 1
       IN RetTables(parseRows(SubSeq(result.rows, 1, n)))

\* lines 381-398: what getTables returns for the value query() returned
getTablesResult(result) ==
  IF result.kind # "rows" THEN RetTables(<<>>) ELSE RetTables(parseRows(result.rows))

\* the query() of lookup k settled in the last step
Resumes(k) ==
  /\ last.op = "query"
  /\ last.outcome # "pending"
  /\ last.runner = lookups[k].runner
  /\ Get(last.call).query = lookups[k].call.query
  /\ Get(last.call).parameters = lookups[k].call.parameters

Resuming == \E k \in DOMAIN lookups : Resumes(k)

\* the continuation of getTable/getTables after `await this.query(...)`: an
\* error of query() is the error of the call
lookupResume(k) ==
  /\ k \in DOMAIN lookups
  /\ Resumes(k)
  /\ \A j \in 1..(k - 1) : ~ Resumes(j)
  /\ lookups' = RemoveAt(lookups, k)
  /\ last' = IF last.outcome = "error"
             THEN Step(lookups[k].op, last.runner, "error", last.error, Absent, last.call)
             ELSE Step(lookups[k].op, last.runner, "ok", Absent,
                       Some(IF lookups[k].op = "getTable"
                            THEN getTableResult(Get(last.ret))
                            ELSE getTablesResult(Get(last.ret))),
                       last.call)
  /\ UNCHANGED <<runners, pending, remoteLog, issued, fnIn, fnOut, driver, registry,
                 factoryCreate, registrations, afterConnects>>

(***************************************************************************)
(* Inputs.                                                                 *)
(***************************************************************************)
Row1 == [ id |-> 1, name |-> "a" ]
Row2 == [ id |-> 2, name |-> "b" ]

OkResult == D1Result(TRUE, Absent, Some(<<Row1>>), Some(Meta(Some(7), Some(1), Some(1))))
UniqueException == Thrown("Error", Some("UNIQUE constraint failed: t.a"), Absent, Absent)

TxQueries == { "SELECT 1", "drop index i" }
TxParameters == { Some(<<Undefined>>) }
TxResponses == { ResultResponse(OkResult), ThrowResponse(UniqueException) }
Faults == { "none", "prepare", "bind" }
Arguments == { "users", "name" }

NoInput == Absent

\* nothing constructed, nothing registered
InitIdle ==
  /\ runners = <<>>
  /\ pending = <<>>
  /\ remoteLog = <<>>
  /\ issued = 0
  /\ last = Returns("construct", 0)
  /\ driver = Absent
  /\ registry = [ isRegistered |-> FALSE, originalCreate |-> Absent, registrationCount |-> 0 ]
  /\ factoryCreate = OriginalCreate
  /\ registrations = 0
  /\ afterConnects = <<>>
  /\ lookups = <<>>

Init ==
  /\ InitIdle
  /\ fnIn = NoInput
  /\ fnOut = Absent

(***************************************************************************)
(* Spec: one query runner, every interleaving of its transaction methods,  *)
(* release and overlapping query() calls.                                  *)
(***************************************************************************)
Next ==
  \/ runners = <<>> /\ createQueryRunner
  \/ \E r \in DOMAIN runners : release(r)
  \/ \E r \in DOMAIN runners : startTransaction(r)
  \/ \E r \in DOMAIN runners : commitTransaction(r)
  \/ \E r \in DOMAIN runners : rollbackTransaction(r)
  \/ \E r \in DOMAIN runners, q \in TxQueries, p \in TxParameters : queryCall(r, q, p, FALSE)
  \/ \E i \in DOMAIN pending, f \in Faults : queryExecute(i, f)
  \/ \E i \in DOMAIN pending, resp \in TxResponses : queryComplete(i, resp)

Spec == Init /\ [][Next]_vars

(***************************************************************************)
(* SpecRunners: several query runners of one driver, calls interleaved.    *)
(***************************************************************************)
NextRunners ==
  \/ createQueryRunner
  \/ \E r \in DOMAIN runners : release(r)
  \/ \E r \in DOMAIN runners : startTransaction(r)
  \/ \E r \in DOMAIN runners : commitTransaction(r)
  \/ \E r \in DOMAIN runners : rollbackTransaction(r)
  \/ \E r \in DOMAIN runners : queryCall(r, "drop index i", Absent, FALSE)
  \/ \E i \in DOMAIN pending : queryExecute(i, "none")
  \/ \E i \in DOMAIN pending : queryComplete(i, ResultResponse(OkResult))

SpecRunners == Init /\ [][NextRunners]_vars

(***************************************************************************)
(* SpecSchema: one query runner, the unsupported schema operations called  *)
(* in every transaction state.                                             *)
(***************************************************************************)
NextSchema ==
  \/ runners = <<>> /\ createQueryRunner
  \/ \E r \in DOMAIN runners : startTransaction(r)
  \/ \E r \in DOMAIN runners : commitTransaction(r)
  \/ \E r \in DOMAIN runners : queryCall(r, "drop index i", Some(<<Undefined>>), FALSE)
  \/ \E i \in DOMAIN pending : queryExecute(i, "none")
  \/ \E i \in DOMAIN pending : queryComplete(i, ResultResponse(OkResult))
  \/ \E r \in DOMAIN runners, a \in Arguments : dropColumn(r, a, a)
  \/ \E r \in DOMAIN runners, a \in Arguments : changeColumn(r, a, a, a)
  \/ \E r \in DOMAIN runners, a \in Arguments : renameColumn(r, a, a, a)
  \/ \E r \in DOMAIN runners, a \in Arguments : dropColumns(r, a, <<a>>)
  \/ \E r \in DOMAIN runners, a \in Arguments : createForeignKey(r, a, a)
  \/ \E r \in DOMAIN runners, a \in Arguments : dropForeignKey(r, a, a)
  \/ \E r \in DOMAIN runners, a \in Arguments : createPrimaryKey(r, a, <<a>>)
  \/ \E r \in DOMAIN runners, a \in Arguments : dropPrimaryKey(r, a)

SpecSchema == Init /\ [][NextSchema]_vars

(***************************************************************************)
(* SpecQuery: one query() call on one runner, inside or outside a          *)
(* transaction, over every text, parameter list, result shape and remote   *)
(* answer of the input sets.                                               *)
(***************************************************************************)
\* a statement of 208 characters, longer than the preview
Filler == "0123456789012345678901234567890123456789"
LongQuery == "UPDATE t SET a = '" \o Filler \o Filler \o Filler \o Filler \o Filler \o "'"

QueryTexts ==
  { "SELECT * FROM t", "  select 1", "WITH x AS (SELECT 1) SELECT 2",
    "PRAGMA foreign_keys = ON", "INSERT INTO t (a) VALUES (?)",
    "insert into unique_t (a) values (?)", "UPDATE t SET a = ?", "drop index i",
    LongQuery }

ParameterValues == { Undefined, Null, Num(1) }

RECURSIVE ListsUpTo(_, _)
ListsUpTo(values, n) ==
  IF n = 0 THEN { <<>> }
  ELSE LET shorter == ListsUpTo(values, n - 1)
       IN shorter \cup { Append(l, v) : l \in { x \in shorter : Len(x) = n - 1 }, v \in values }

ParameterLists == { Absent } \cup { Some(l) : l \in ListsUpTo(ParameterValues, MaxParams) }

OptNumbers(present) == { Absent } \cup { Some(n) : n \in present }

Metas ==
  { Absent } \cup
  { Some(Meta(l, w, c)) : l \in OptNumbers({0, 7}), w \in OptNumbers({0, 1}),
                          c \in OptNumbers({0, 2}) }

DbMessages ==
  { "UNIQUE constraint failed: t.a", "NOT NULL constraint failed: t.a",
    "no such table: t", "near \"x\": syntax error" }

SuccessResults ==
  { D1Result(TRUE, Absent, rows, Some(Meta(Some(7), Some(1), Some(1)))) :
      rows \in { Absent, Some(<<>>), Some(<<Row1>>), Some(<<Row1, Row2>>) } }
  \cup { D1Result(TRUE, Absent, Absent, m) : m \in Metas }

FailedResults ==
  { D1Result(FALSE, e, Absent, Absent) :
      e \in { Absent, Some("") } \cup { Some(m) : m \in DbMessages } }

ThrownValues ==
  { Thrown("Error", Some(m), Absent, Absent) : m \in DbMessages }
  \cup { Thrown("Error", Some("D1_ERROR: wrapped"), Some("FOREIGN KEY constraint failed"), Absent),
         Thrown("Error", Some("constraint failed"), Absent, Some("SQLITE_CONSTRAINT_NOTNULL")),
         Thrown("Error", Some("constraint failed"), Absent, Some("SQLITE_BUSY")),
         Thrown("Error", Some("UNIQUE constraint failed: t.a"), Absent,
                Some("SQLITE_CONSTRAINT_NOTNULL")),
         Thrown("object", Some("table t already exists"), Absent, Absent),
         Thrown("object", Absent, Absent, Absent),
         Thrown("string", Some("duplicate column name: a"), Absent, Absent) }

Responses ==
  { ResultResponse(r) : r \in SuccessResults \cup FailedResults }
  \cup { ThrowResponse(e) : e \in ThrownValues }

NextQuery ==
  \/ runners = <<>> /\ createQueryRunner
  \/ \E r \in DOMAIN runners : issued = 0 /\ startTransaction(r)
  \/ \E r \in DOMAIN runners, q \in QueryTexts, p \in ParameterLists, u \in BOOLEAN :
       issued = 0 /\ queryCall(r, q, p, u)
  \/ \E i \in DOMAIN pending, f \in Faults : queryExecute(i, f)
  \/ \E i \in DOMAIN pending, resp \in Responses : queryComplete(i, resp)

SpecQuery == Init /\ [][NextQuery]_vars

(***************************************************************************)
(* SpecErrors: D1ErrorHandler.mapErrorCode applied to one message and one  *)
(* optional default code.                                                  *)
(***************************************************************************)
MessageParts ==
  { "", "UNIQUE constraint failed", "Unique", "NOT NULL constraint failed", "not  null",
    "FOREIGN KEY constraint failed", "no such table", "table t already exists",
    "Duplicate column name", "syntax error" }

ErrorMessages == { a \o ": " \o b : a \in MessageParts, b \in MessageParts }

InitErrors ==
  /\ InitIdle
  /\ fnIn \in { Some([ errorMessage |-> m, defaultCode |-> d ]) :
                  m \in ErrorMessages, d \in { Absent } \cup { Some(c) : c \in KnownCodes } }
  /\ fnOut = Absent

\* the default value of the parameter: defaultCode: D1ErrorCode = "D1_ERROR"
applyMapErrorCode ==
  /\ IsPresent(fnIn)
  /\ fnOut = Absent
  /\ fnOut' = Some(mapErrorCode(Get(fnIn).errorMessage,
                                IF IsPresent(Get(fnIn).defaultCode)
                                THEN Get(Get(fnIn).defaultCode) ELSE "D1_ERROR"))
  /\ UNCHANGED <<runners, pending, remoteLog, issued, last, fnIn, hostVars>>

NextErrors == applyMapErrorCode

SpecErrors == InitErrors /\ [][NextErrors]_vars

(***************************************************************************)
(* SpecDriver: driver construction over every shape of the `database`      *)
(* option, and the registry's register/unregister calls, nested.           *)
(***************************************************************************)
PropertyTypes == { "function", "undefined", "string" }

Databases ==
  { UndefinedValue, NullValue,
    Value("number", FALSE, "undefined", "undefined", "undefined"),
    Value("string", TRUE, "undefined", "undefined", "undefined") }
  \cup { Value("object", TRUE, p, b, e) : p \in PropertyTypes, b \in PropertyTypes,
                                          e \in PropertyTypes }
  \cup { Value("function", TRUE, p, b, e) : p \in { "function", "undefined" },
                                            b \in { "function", "undefined" },
                                            e \in { "function", "undefined" } }

Configurations == { Options(Absent) } \cup { Options(Some([ database |-> d ])) : d \in Databases }

NextDriver ==
  \/ \E o \in Configurations : newD1Driver(o)
  \/ register
  \/ unregister
  \/ \E o \in Configurations : create(o)
  \/ \E d \in Databases : createD1DataSource(d)

SpecDriver == Init /\ [][NextDriver]_vars

(***************************************************************************)
(* SpecTable: CREATE TABLE text generated from column metadata, then       *)
(* parsed back.                                                            *)
(***************************************************************************)
MaxColumns == 2

KeyColumns ==
  { Column("id", "integer", TRUE, FALSE, FALSE, TRUE, Some("increment"), Absent),
    Column("id", "integer", TRUE, FALSE, FALSE, FALSE, Absent, Absent),
    Column("id", "text", TRUE, FALSE, FALSE, TRUE, Some("increment"), Absent),
    Column("id", "varchar", TRUE, FALSE, FALSE, TRUE, Some("uuid"), Absent),
    Column("tenant", "int", TRUE, FALSE, FALSE, FALSE, Absent, Absent) }

PlainColumns ==
  { Column("email", "varchar", FALSE, u, n, FALSE, Absent, d) :
      u \in BOOLEAN, n \in BOOLEAN, d \in { Absent, Some(Str("it's")) } }
  \cup { Column("age", t, FALSE, FALSE, n, FALSE, Absent, d) :
      t \in { "int", "boolean" }, n \in BOOLEAN,
      d \in { Absent, Some(Null), Some(Number(FALSE, 18, "", 0)) } }

Columns == KeyColumns \cup PlainColumns

\* tables of 1..n columns with distinct names
RECURSIVE ColumnLists(_)
ColumnLists(n) ==
  IF n = 0 THEN { <<>> }
  ELSE LET shorter == ColumnLists(n - 1)
       IN shorter \cup
          { Append(l, c) : l \in { x \in shorter : Len(x) = n - 1 },
                           c \in Columns }

DistinctNames(columns) ==
  \A i \in DOMAIN columns, j \in DOMAIN columns : i # j => columns[i].name # columns[j].name

Tables ==
  { Table("users", l) : l \in { x \in ColumnLists(MaxColumns) : Len(x) > 0 /\ DistinctNames(x) } }

InitTable ==
  /\ InitIdle
  /\ fnIn \in { Some(t) : t \in Tables }
  /\ fnOut = Absent

applyBuildCreateTableSql ==
  /\ IsPresent(fnIn)
  /\ fnOut = Absent
  /\ fnOut' = Some([ sql |-> buildCreateTableSql(Get(fnIn), Absent), parsed |-> Absent ])
  /\ UNCHANGED <<runners, pending, remoteLog, issued, last, fnIn, hostVars>>

applyParseTableSql ==
  /\ IsPresent(fnOut)
  /\ Get(fnOut).parsed = Absent
  /\ fnOut' = Some([ Get(fnOut) EXCEPT !.parsed =
                       Some(parseTableSql(Get(fnOut).sql, Get(fnIn).name)) ])
  /\ UNCHANGED <<runners, pending, remoteLog, issued, last, fnIn, hostVars>>

NextTable ==
  \/ applyBuildCreateTableSql
  \/ applyParseTableSql

SpecTable == InitTable /\ [][NextTable]_vars

(***************************************************************************)
(* SpecCreateTable: createTable on one runner, inside or outside a         *)
(* transaction, for every value of ifNotExist.                             *)
(***************************************************************************)
CreateTables ==
  { Table("t", << Column("id", "integer", TRUE, FALSE, FALSE, TRUE, Some("increment"), Absent) >>),
    Table("u", << Column("id", "varchar", TRUE, FALSE, FALSE, TRUE, Some("uuid"), Absent),
                  Column("email", "varchar", FALSE, TRUE, FALSE, FALSE, Absent, Absent) >>),
    Table("m", << Column("id", "integer", TRUE, FALSE, FALSE, FALSE, Absent, Absent),
                  Column("tenant", "int", TRUE, FALSE, FALSE, FALSE, Absent, Absent) >>) }

IfNotExistValues == { Absent, Some(TRUE), Some(FALSE) }

NextCreateTable ==
  \/ runners = <<>> /\ createQueryRunner
  \/ \E r \in DOMAIN runners : issued = 0 /\ startTransaction(r)
  \/ \E r \in DOMAIN runners, t \in CreateTables, v \in IfNotExistValues : createTable(r, t, v)
  \/ \E i \in DOMAIN pending, f \in { "none", "prepare" } : queryExecute(i, f)
  \/ \E i \in DOMAIN pending, resp \in TxResponses : queryComplete(i, resp)

SpecCreateTable == Init /\ [][NextCreateTable]_vars

(***************************************************************************)
(* SpecDefaults: a default value written by normalizeDefault and read back *)
(* by parseDefaultValue.                                                   *)
(***************************************************************************)
StringParts == { "", "a", "'", "''", "it's", "NULL", "1", " x ", "now()" }

DefaultValues ==
  { Null, Bool(TRUE), Bool(FALSE) }
  \cup { Str(a \o b) : a \in StringParts, b \in StringParts }
  \cup { Number(FALSE, n, "", 0) : n \in { 0, 1, 7, 42, 100 } }
  \cup { Number(TRUE, n, "", 0) : n \in { 1, 10 } }
  \cup { Number(neg, w, f, 0) : neg \in BOOLEAN, w \in { 0, 3 }, f \in { "5", "14", "05" } }
  \cup { Number(FALSE, 1, "", 0 - 7), Number(FALSE, 1, "5", 21) }

InitDefaults ==
  /\ InitIdle
  /\ fnIn \in { Some(v) : v \in DefaultValues }
  /\ fnOut = Absent

applyNormalizeDefault ==
  /\ IsPresent(fnIn)
  /\ fnOut = Absent
  /\ fnOut' = Some([ text |-> normalizeDefault(Get(fnIn)), parsed |-> Absent ])
  /\ UNCHANGED <<runners, pending, remoteLog, issued, last, fnIn, hostVars>>

applyParseDefaultValue ==
  /\ IsPresent(fnOut)
  /\ Get(fnOut).parsed = Absent
  /\ fnOut' = Some([ Get(fnOut) EXCEPT !.parsed = Some(parseDefaultValue(Get(fnOut).text)) ])
  /\ UNCHANGED <<runners, pending, remoteLog, issued, last, fnIn, hostVars>>

NextDefaults ==
  \/ applyNormalizeDefault
  \/ applyParseDefaultValue

SpecDefaults == InitDefaults /\ [][NextDefaults]_vars

(***************************************************************************)
(* SpecNormalize: normalizeQuery applied to a text, then to its own        *)
(* result.                                                                 *)
(***************************************************************************)
Leads == { "", " ", "\n" }
Keywords == { "DROP INDEX", "drop index", "Drop Index", "DROP  INDEX", "DROP INDEXES",
              "DROP TABLE", "SELECT" }
Gaps == { "", " ", "  ", "\t" }
Rests == { "", "x", "\"idx\"", "IF EXISTS x", "if exists x", "IF  EXISTS x" }

NormalizeTexts == { l \o k \o g \o r : l \in Leads, k \in Keywords, g \in Gaps, r \in Rests }

InitNormalize ==
  /\ InitIdle
  /\ fnIn \in { Some(q) : q \in NormalizeTexts }
  /\ fnOut = Absent

applyNormalizeQuery ==
  /\ IsPresent(fnIn)
  /\ fnOut = Absent
  /\ fnOut' = Some([ once |-> normalizeQuery(Get(fnIn)), twice |-> Absent ])
  /\ UNCHANGED <<runners, pending, remoteLog, issued, last, fnIn, hostVars>>

applyNormalizeQueryAgain ==
  /\ IsPresent(fnOut)
  /\ Get(fnOut).twice = Absent
  /\ fnOut' = Some([ Get(fnOut) EXCEPT !.twice = Some(normalizeQuery(Get(fnOut).once)) ])
  /\ UNCHANGED <<runners, pending, remoteLog, issued, last, fnIn, hostVars>>

NextNormalize ==
  \/ applyNormalizeQuery
  \/ applyNormalizeQueryAgain

SpecNormalize == InitNormalize /\ [][NextNormalize]_vars

(***************************************************************************)
(* SpecConnect: afterConnect calls of one driver, and query runners the    *)
(* host creates and uses afterwards.                                       *)
(***************************************************************************)
ThrowawayRunners == { afterConnects[k].runner : k \in DOMAIN afterConnects }

LaterQueries == { "SELECT 1", "PRAGMA foreign_keys" }

ConnectResponses ==
  TxResponses \cup { ResultResponse(D1Result(FALSE, Some("no such table: t"), Absent, Absent)) }

NextConnect ==
  \/ ~ Settling /\ afterConnect
  \/ ~ Settling /\ createQueryRunner
  \/ \E r \in DOMAIN runners \ ThrowawayRunners, q \in LaterQueries :
       ~ Settling /\ queryCall(r, q, Absent, FALSE)
  \/ \E i \in DOMAIN pending, f \in { "none", "prepare" } : ~ Settling /\ queryExecute(i, f)
  \/ \E i \in DOMAIN pending, resp \in ConnectResponses : ~ Settling /\ queryComplete(i, resp)
  \/ \E k \in DOMAIN afterConnects : afterConnectFinally(k)

SpecConnect == Init /\ [][NextConnect]_vars

(***************************************************************************)
(* SpecLookup: getTable and getTables on one runner, over stored texts     *)
(* that parse, texts that do not, and rows without text.                   *)
(***************************************************************************)
UsersSql ==
  buildCreateTableSql(
    Table("users", << Column("id", "integer", TRUE, FALSE, FALSE, TRUE, Some("increment"), Absent),
                      Column("email", "varchar", FALSE, TRUE, FALSE, FALSE, Absent, Absent) >>),
    Absent)

InternalRow == Row("internal", "")

BrokenRow == Row("broken", "CREATE TABLE broken")
UsersRow == Row("users", UsersSql)

RowLists ==
  { <<>>, <<UsersRow>>, <<BrokenRow>>, <<BrokenRow, UsersRow>>, <<UsersRow, BrokenRow>>,
    <<InternalRow, UsersRow>> }

LookupNames == { "users" }

LookupFaults == { "none", "prepare" }

LookupNameLists == { Absent, Some(<<"users", "broken">>) }

LookupResponses ==
  { ResultResponse(D1Result(TRUE, Absent, Some(rows), Absent)) : rows \in RowLists }
  \cup { ResultResponse(D1Result(TRUE, Absent, Absent, Absent)),
         ResultResponse(D1Result(FALSE, Some("no such table: sqlite_master"), Absent, Absent)),
         ThrowResponse(UniqueException) }

NextLookup ==
  \/ runners = <<>> /\ createQueryRunner
  \/ \E r \in DOMAIN runners, n \in LookupNames : ~ Resuming /\ getTable(r, n)
  \/ \E r \in DOMAIN runners, ns \in LookupNameLists : ~ Resuming /\ getTables(r, ns)
  \/ \E i \in DOMAIN pending, f \in LookupFaults : ~ Resuming /\ queryExecute(i, f)
  \/ \E i \in DOMAIN pending, resp \in LookupResponses : ~ Resuming /\ queryComplete(i, resp)
  \/ \E k \in DOMAIN lookups : lookupResume(k)

SpecLookup == Init /\ [][NextLookup]_vars

(***************************************************************************)
(* SpecParse: parseTableSql applied to stored CREATE TABLE texts as a user *)
(* may have written them: column names quoted or bare, table-level         *)
(* constraints between the columns.  Each entry of a body is the text of   *)
(* one entry of the column list with the column name and the storage type  *)
(* it declares (Absent for a table-level constraint).                      *)
(***************************************************************************)
ColumnEntry(name, type, text) == [ declares |-> Some(name), type |-> Some(type), text |-> text ]
ConstraintEntry(text) == [ declares |-> Absent, type |-> Absent, text |-> text ]

BodyEntries ==
  { ColumnEntry("id", "INTEGER", "id INTEGER PRIMARY KEY AUTOINCREMENT"),
    ColumnEntry("email", "TEXT", "\"email\" TEXT NOT NULL"),
    ColumnEntry("price", "NUMERIC", "price NUMERIC DEFAULT 0"),
    ColumnEntry("ratio", "REAL", "ratio REAL"),
    ColumnEntry("photo", "BLOB", "\"photo\" BLOB"),
    ColumnEntry("created_at", "TEXT", "\"created_at\" TEXT"),
    ColumnEntry("checksum", "TEXT", "checksum TEXT"),
    ColumnEntry("unique_code", "TEXT", "unique_code TEXT UNIQUE"),
    ColumnEntry("check_in", "TEXT", "\"check_in\" TEXT"),
    ConstraintEntry("PRIMARY KEY (id, email)"),
    ConstraintEntry("unique (email)"),
    ConstraintEntry("CHECK (price >= 0)"),
    ConstraintEntry("FOREIGN KEY (id) REFERENCES u (id)") }

Bodies == { b \in ListsUpTo(BodyEntries, MaxColumns) : Len(b) > 0 }

StoredSql(body) ==
  "CREATE TABLE t (" \o join([ i \in 1..Len(body) |-> body[i].text ], ", ") \o ")"

InitParse ==
  /\ InitIdle
  /\ fnIn \in { Some(b) : b \in Bodies }
  /\ fnOut = Absent

applyParseStoredSql ==
  /\ IsPresent(fnIn)
  /\ fnOut = Absent
  /\ fnOut' = Some(parseTableSql(StoredSql(Get(fnIn)), "t"))
  /\ UNCHANGED <<runners, pending, remoteLog, issued, last, fnIn, hostVars>>

NextParse == applyParseStoredSql

SpecParse == InitParse /\ [][NextParse]_vars

(***************************************************************************)
(* Observations used by the properties.                                    *)
(***************************************************************************)
Completed(step) == step.op = "query" /\ step.outcome # "pending"

\* number of run()/all() calls in a sequence of remote calls
Executions(trace) == Cardinality({ k \in DOMAIN trace : trace[k].call \in {"run", "all"} })

NothingChanged ==
  /\ runners' = runners
  /\ pending' = pending
  /\ remoteLog' = remoteLog
  /\ issued' = issued

FailsWith(step, name) ==
  /\ step.outcome = "error"
  /\ IsPresent(step.error)
  /\ Get(step.error).name = name

(***************************************************************************)
(* C1: on one query runner, startTransaction while the flag is set, and    *)
(* commitTransaction or rollbackTransaction while it is clear, fail with a *)
(* transaction error, leave the flag and both tracking arrays as they were *)
(* and make no call to the remote handle.                                  *)
(***************************************************************************)
C1_FailingTransactionCalls ==
  [][ /\ ( /\ last'.op = "startTransaction"
           /\ runners[last'.runner].isTransactionActive )
         => FailsWith(last', "D1TransactionError") /\ NothingChanged
      /\ ( /\ last'.op \in {"commitTransaction", "rollbackTransaction"}
           /\ ~ runners[last'.runner].isTransactionActive )
         => FailsWith(last', "D1TransactionError") /\ NothingChanged
    ]_vars

C1_Witness ==
  /\ last.op = "startTransaction"
  /\ last.outcome = "error"
  /\ Len(runners[1].transactionStatements) > 0

(***************************************************************************)
(* C2 as stated: every query() call that completes has performed exactly   *)
(* one remote execution (run or all).                                      *)
(***************************************************************************)
C2_Original ==
  Completed(last) => Executions(Get(last.call).trace) = 1

(***************************************************************************)
(* C2 amended: a query() call performs exactly one remote execution before *)
(* it completes unless prepare() or bind() throws, in which case it        *)
(* performs none; this holds whether or not the transaction flag is set,   *)
(* and commitTransaction and rollbackTransaction make no remote call.      *)
(***************************************************************************)
C2_ImmediateExecution ==
  [][ /\ Completed(last') =>
           Executions(Get(last'.call).trace) =
             (IF Get(last'.call).fault = "none" THEN 1 ELSE 0)
      /\ last'.op \in {"commitTransaction", "rollbackTransaction"} =>
           remoteLog' = remoteLog
      /\ Executions(remoteLog') =
           Executions(remoteLog)
             + (IF /\ last'.op = "query"
                   /\ Get(last'.call).pc = "remote"
                THEN 1 ELSE 0)
    ]_vars

C2_Witness ==
  /\ Completed(last)
  /\ last.outcome = "ok"
  /\ runners[1].isTransactionActive
  /\ Len(runners[1].transactionStatements) = 1
  /\ Executions(remoteLog) = 1

(***************************************************************************)
(* C3: commitTransaction and rollbackTransaction are behaviourally         *)
(* identical: from a runner state with the flag set both end with the flag *)
(* clear and both tracking arrays empty, and neither touches the remote    *)
(* database, so rollback undoes nothing that query() executed.             *)
(***************************************************************************)
C3_CommitEqualsRollback ==
  [][ ( /\ last'.op \in {"commitTransaction", "rollbackTransaction"}
        /\ last'.outcome = "ok" )
      => /\ runners[last'.runner].isTransactionActive
         /\ runners'[last'.runner] = NewRunner
         /\ remoteLog' = remoteLog
         /\ pending' = pending
         /\ commitTransactionState(runners, last'.runner)
              = rollbackTransactionState(runners, last'.runner)
    ]_vars

C3_Witness ==
  /\ last.op = "rollbackTransaction"
  /\ last.outcome = "ok"
  /\ Executions(remoteLog) > 0

(***************************************************************************)
(* C4: createQueryRunner returns a new runner with the flag clear and the  *)
(* tracking arrays empty, and a call on one runner never changes the flag  *)
(* or the tracking arrays of another.                                      *)
(***************************************************************************)
C4_RunnerIsolation ==
  [][ /\ last'.op = "createQueryRunner" =>
           /\ Len(runners') = Len(runners) + 1
           /\ last'.runner = Len(runners')
           /\ ~ runners'[last'.runner].isTransactionActive
           /\ runners'[last'.runner].transactionStatements = <<>>
           /\ runners'[last'.runner].transactionBindings = <<>>
      /\ \A r \in DOMAIN runners : r # last'.runner => runners'[r] = runners[r]
    ]_vars

C4_Witness ==
  /\ Len(runners) >= 2
  /\ last.op = "commitTransaction"
  /\ last.outcome = "ok"
  /\ last.runner = 1
  /\ runners[2].isTransactionActive
  /\ Len(runners[2].transactionStatements) > 0

(***************************************************************************)
(* C5: each unsupported schema operation fails on every call with a        *)
(* validation error that names the operation, in every transaction state,  *)
(* without a remote call and without changing the flag or the arrays.      *)
(***************************************************************************)
UnsupportedOperations ==
  { "dropColumn", "dropColumns", "changeColumn", "renameColumn",
    "createForeignKey", "dropForeignKey", "createPrimaryKey", "dropPrimaryKey" }

\* the words by which each message names its operation
OperationWords(op) ==
  CASE op \in {"dropColumn", "dropColumns"} -> "DROP COLUMN"
    [] op = "changeColumn" -> "ALTER TABLE"
    [] op = "renameColumn" -> "RENAME COLUMN"
    [] op = "createForeignKey" -> "adding foreign keys"
    [] op = "dropForeignKey" -> "dropping foreign keys"
    [] op = "createPrimaryKey" -> "adding primary keys"
    [] op = "dropPrimaryKey" -> "dropping primary keys"

C5_UnsupportedAlwaysFail ==
  [][ last'.op \in UnsupportedOperations =>
        /\ FailsWith(last', "D1ValidationError")
        /\ includes(Get(Get(last'.error).message), OperationWords(last'.op))
        /\ Get(last'.error).operation = Some(last'.op)
        /\ NothingChanged
    ]_vars

C5_Witness ==
  /\ last.op = "changeColumn"
  /\ last.outcome = "error"
  /\ runners[1].isTransactionActive
  /\ Len(runners[1].transactionStatements) > 0

(***************************************************************************)
(* C6: for a query() call with a non-empty parameter list, bind() receives *)
(* the caller's parameters in the same order and number, every undefined   *)
(* replaced by null and every other element unchanged; undefined never     *)
(* reaches the remote handle.                                              *)
(***************************************************************************)
BindCalls(trace) == { k \in DOMAIN trace : trace[k].call = "bind" }

C6_UndefinedBoundAsNull ==
  /\ \A k \in DOMAIN remoteLog :
       \A j \in DOMAIN remoteLog[k].values : remoteLog[k].values[j] # Undefined
  /\ ( /\ last.op = "query"
       /\ Get(last.call).pc \in {"remote", "done"}
       /\ Get(last.call).fault # "prepare"
       /\ hasParameters(Get(last.call).parameters) )
     => LET c == Get(last.call)
            p == Get(c.parameters)
        IN /\ Cardinality(BindCalls(c.trace)) = 1
           /\ \A k \in BindCalls(c.trace) :
                /\ Len(c.trace[k].values) = Len(p)
                /\ \A j \in DOMAIN p :
                     c.trace[k].values[j] = (IF p[j] = Undefined THEN Null ELSE p[j])

C6_Witness ==
  /\ Completed(last)
  /\ last.outcome = "ok"
  /\ Get(last.call).parameters = Some(<<Num(1), Undefined>>)
  /\ \E k \in DOMAIN remoteLog :
       remoteLog[k].call = "bind" /\ remoteLog[k].values = <<Num(1), Null>>

(***************************************************************************)
(* C7: for the same database error message and the same SQL text, query()  *)
(* raises a query error with the same code and the same message whether    *)
(* the remote handle returned a failed result or threw an exception.       *)
(***************************************************************************)
C7_UniformFailureChannels ==
  ( /\ Completed(last)
    /\ last.outcome = "error"
    /\ Get(last.call).fault = "none"
    /\ Get(Get(last.call).response).kind = "result" )
  => LET c == Get(last.call)
         dbMessage == Get(Get(Get(c.response).result).error)
         thrown == Get(executeQueryOutcome(c,
                        ThrowResponse(Thrown("Error", Some(dbMessage), Absent, Absent))).error)
     IN /\ Get(last.error).name = "D1QueryError"
        /\ Get(last.error).code = thrown.code
        /\ Get(last.error).message = thrown.message

(***************************************************************************)
(* C8 as stated: a successful non-select statement returns, unstructured,  *)
(* last_row_id for an insert and undefined otherwise; structured, raw is   *)
(* the inserted id only for an insert, records is empty and affected is    *)
(* rows_written when that field is present, otherwise changes, otherwise 0.*)
(***************************************************************************)
SucceededRun(step) ==
  /\ Completed(step)
  /\ step.outcome = "ok"
  /\ ~ Get(step.call).isSelect
  /\ Get(Get(step.call).response).kind = "result"
  /\ Get(Get(Get(step.call).response).result).success

C8_Original ==
  SucceededRun(last) =>
    LET c == Get(last.call)
        result == Get(Get(c.response).result)
        id == metaField(result, "last_row_id")
        written == metaField(result, "rows_written")
        changes == metaField(result, "changes")
        affected == IF IsPresent(written) THEN Get(written)
                    ELSE IF IsPresent(changes) THEN Get(changes) ELSE 0
        ret == Get(last.ret)
    IN IF c.useStructuredResult
       THEN /\ ret.kind = "structured"
            /\ ret.records = <<>>
            /\ ret.affected = affected
            /\ IF c.isInsert
               THEN IsPresent(id) => ret.raw = RetNumber(Get(id))
               ELSE ret.raw = RetUndefined
       ELSE IF c.isInsert
            THEN IsPresent(id) => ret = RetNumber(Get(id))
            ELSE ret = RetUndefined

(***************************************************************************)
(* C8 amended: as stated, except that a field counts only when it is       *)
(* present and non-zero: affected is rows_written when that is present and *)
(* non-zero, otherwise changes when that is present and non-zero,          *)
(* otherwise 0; and an insert whose result has no last_row_id yields 0.    *)
(***************************************************************************)
C8_RunResultMapping ==
  SucceededRun(last) =>
    LET c == Get(last.call)
        result == Get(Get(c.response).result)
        id == metaField(result, "last_row_id")
        written == metaField(result, "rows_written")
        changes == metaField(result, "changes")
        affected == IF IsPresent(written) /\ Get(written) # 0 THEN Get(written)
                    ELSE IF IsPresent(changes) /\ Get(changes) # 0 THEN Get(changes)
                    ELSE 0
        insertedId == IF IsPresent(id) THEN Get(id) ELSE 0
        ret == Get(last.ret)
    IN IF c.useStructuredResult
       THEN /\ ret.kind = "structured"
            /\ ret.records = <<>>
            /\ ret.affected = affected
            /\ ret.raw = (IF c.isInsert THEN RetNumber(insertedId) ELSE RetUndefined)
       ELSE ret = (IF c.isInsert THEN RetNumber(insertedId) ELSE RetUndefined)

C8_Witness ==
  /\ SucceededRun(last)
  /\ Get(last.call).isInsert
  /\ Get(last.call).useStructuredResult
  /\ Get(Get(Get(last.call).response).result).meta = Some(Meta(Some(7), Some(0), Some(2)))
  /\ Get(last.ret) = RetStructured(RetNumber(7), <<>>, 2)

(***************************************************************************)
(* C9: a successful select-like statement with rows R returns R itself in  *)
(* unstructured mode and {raw: R, records: R, affected: 0} in structured   *)
(* mode, R being the empty list when the result has no rows field.         *)
(***************************************************************************)
SucceededSelect(step) ==
  /\ Completed(step)
  /\ step.outcome = "ok"
  /\ Get(step.call).isSelect
  /\ Get(Get(step.call).response).kind = "result"
  /\ Get(Get(Get(step.call).response).result).success

C9_SelectResultMapping ==
  SucceededSelect(last) =>
    LET c == Get(last.call)
        result == Get(Get(c.response).result)
        R == IF result.results = Absent THEN <<>> ELSE result.results[1]
        ret == Get(last.ret)
    IN IF c.useStructuredResult
       THEN /\ ret.kind = "structured"
            /\ ret.raw = [kind |-> "rows", rows |-> R]
            /\ ret.records = R
            /\ ret.affected = 0
       ELSE ret = [kind |-> "rows", rows |-> R]

C9_Witness ==
  /\ SucceededSelect(last)
  /\ Get(last.call).useStructuredResult
  /\ Get(Get(Get(last.call).response).result).results = Some(<<Row1, Row2>>)
  /\ Get(last.ret).records = <<Row1, Row2>>

(***************************************************************************)
(* C10: the classifier maps every message to one of the five known codes,  *)
(* searching case-insensitively with the precedence unique, not null,      *)
(* foreign key, then (no such table | already exists | duplicate); any     *)
(* other message gets the caller's default, D1_ERROR when none is given.   *)
(***************************************************************************)
C10_ClassifierPrecedence ==
  IsPresent(fnOut) =>
    LET m == toLowerCase(Get(fnIn).errorMessage)
        d == Get(fnIn).defaultCode
        code == Get(fnOut)
    IN /\ code \in KnownCodes
       /\ includes(m, "unique") => code = "SQLITE_CONSTRAINT_UNIQUE"
       /\ ~ includes(m, "unique") /\ includes(m, "not null")
            => code = "SQLITE_CONSTRAINT_NOTNULL"
       /\ ~ includes(m, "unique") /\ ~ includes(m, "not null") /\ includes(m, "foreign key")
            => code = "SQLITE_CONSTRAINT_FOREIGNKEY"
       /\ ( /\ ~ includes(m, "unique") /\ ~ includes(m, "not null")
            /\ ~ includes(m, "foreign key")
            /\ \/ includes(m, "no such table")
               \/ includes(m, "already exists")
               \/ includes(m, "duplicate") )
            => code = "SQLITE_ERROR"
       /\ ( \A w \in { "unique", "not null", "foreign key", "no such table",
                       "already exists", "duplicate" } : ~ includes(m, w) )
            => code = (IF d = Absent THEN "D1_ERROR" ELSE d[1])

C10_Witness ==
  /\ IsPresent(fnOut)
  /\ Get(fnIn).errorMessage = "NOT NULL constraint failed: Unique"
  /\ Get(fnIn).defaultCode = Some("SQLITE_ERROR")
  /\ Get(fnOut) = "SQLITE_CONSTRAINT_UNIQUE"

(***************************************************************************)
(* C11: constructing a driver fails with a validation error, before any    *)
(* call to the remote handle, when the configuration has no database value *)
(* or when that value does not expose all three of prepare, batch and exec *)
(* as callable; for every other configuration construction succeeds.       *)
(* C11_Original states it as written.  C11_DriverConstruction states what  *)
(* the constructor does: the value must moreover be a non-null object      *)
(* (typeof "object"), so a callable value that has the three methods is    *)
(* rejected too.                                                           *)
(***************************************************************************)
Constructed(step) == step.op = "new D1Driver"

DatabaseOf(options) ==
  IF IsPresent(options.driver) THEN Get(options.driver).database ELSE UndefinedValue

NoDatabaseValue(options) == DatabaseOf(options).type \in { "undefined", "null" }

ExposesAll(value) ==
  /\ value.prepare = "function"
  /\ value.batch = "function"
  /\ value.exec = "function"

ConstructionFailsExactlyWhen(mustFail) ==
  /\ last.outcome = "error" <=> mustFail
  /\ last.outcome = "error" =>
       /\ FailsWith(last, "D1ValidationError")
       /\ driver = Absent
  /\ last.outcome = "ok" => driver = Some([ options |-> Get(last.call) ])
  /\ remoteLog = <<>>

C11_Original ==
  Constructed(last) =>
    LET options == Get(last.call) IN
    ConstructionFailsExactlyWhen(
      NoDatabaseValue(options) \/ ~ ExposesAll(DatabaseOf(options)))

C11_DriverConstruction ==
  Constructed(last) =>
    LET options == Get(last.call) IN
    ConstructionFailsExactlyWhen(
      \/ NoDatabaseValue(options)
      \/ DatabaseOf(options).type # "object"
      \/ ~ ExposesAll(DatabaseOf(options)))

C11_Witness ==
  /\ Constructed(last)
  /\ last.outcome = "error"
  /\ DatabaseOf(Get(last.call)).type = "object"
  /\ DatabaseOf(Get(last.call)).prepare = "function"
  /\ DatabaseOf(Get(last.call)).batch = "function"
  /\ DatabaseOf(Get(last.call)).exec # "function"

(***************************************************************************)
(* C12: over every sequence of register and unregister calls from the      *)
(* unregistered state, the host factory method is the patch exactly while  *)
(* more register calls than unregister calls have taken effect; an         *)
(* unregister call made while unregistered changes nothing; once every     *)
(* register is matched the host method is the original again; the saved    *)
(* original is never the patch.                                            *)
(***************************************************************************)
C12_RegistryReferenceCount ==
  /\ [] /\ factoryCreate = PatchedCreate <=> registrations > 0
        /\ registrations = 0 => factoryCreate = OriginalCreate
        /\ registry.originalCreate # Some(PatchedCreate)
  /\ [][ last'.op = "unregister" /\ registrations = 0
           => UNCHANGED <<registry, factoryCreate, driver>> ]_vars

C12_Witness ==
  /\ last.op = "unregister"
  /\ registrations = 2
  /\ factoryCreate = PatchedCreate
  /\ registry.originalCreate = Some(OriginalCreate)

(***************************************************************************)
(* C13: round trip.  For every set of column metadata, parsing the CREATE  *)
(* TABLE text generated from it yields, for each input column, a column    *)
(* with the same name, the same type family and the same primary-key,      *)
(* unique and nullable flags; only table-level constraints are lost (so    *)
(* the primary-key flag is not compared when the key is composite and      *)
(* written as a table-level clause).                                       *)
(***************************************************************************)
\* the storage type a column type is generated as
TypeFamily(column) == normalizeType(column)

IsComposite(table) == Len(SelectSeq(table.columns, IsPrimaryColumn)) > 1

SameColumn(table, in, out) ==
  /\ out.name = in.name
  /\ TypeFamily(out) = TypeFamily(in)
  /\ IsComposite(table) \/ out.isPrimary = in.isPrimary
  /\ out.isUnique = in.isUnique
  /\ out.isNullable = in.isNullable

Parsed == IsPresent(fnOut) /\ IsPresent(Get(fnOut).parsed)

C13_RoundTrip ==
  Parsed =>
    LET table == Get(fnIn)
        result == Get(Get(fnOut).parsed)
    IN /\ IsPresent(result.table)
       /\ \A i \in DOMAIN table.columns :
            \E j \in DOMAIN Get(result.table).columns :
              SameColumn(table, table.columns[i], Get(result.table).columns[j])

(***************************************************************************)
(* C16: in generated CREATE TABLE text a table with exactly one primary    *)
(* column carries PRIMARY KEY inline on that column (INTEGER PRIMARY KEY   *)
(* AUTOINCREMENT when the column is integer with auto-increment            *)
(* generation, <type> PRIMARY KEY otherwise) and no table-level PRIMARY    *)
(* KEY clause; a table with two or more primary columns carries no inline  *)
(* PRIMARY KEY or AUTOINCREMENT and exactly one trailing PRIMARY KEY (...) *)
(* clause listing the primary columns in declaration order.                *)
(***************************************************************************)
Occurrences(text, word) ==
  Cardinality({ i \in 1..Len(text) :
                  i + Len(word) - 1 <= Len(text) /\ SubSeq(text, i, i + Len(word) - 1) = word })

Generated == IsPresent(fnOut)

InlineKey(column) ==
  IF /\ TypeFamily(column) = "INTEGER"
     /\ column.isGenerated
     /\ column.generationStrategy = Some("increment")
  THEN escape(column.name) \o " INTEGER PRIMARY KEY AUTOINCREMENT"
  ELSE escape(column.name) \o " " \o TypeFamily(column) \o " PRIMARY KEY"

C16_PrimaryKeyPlacement ==
  Generated =>
    LET table == Get(fnIn)
        sql == Get(fnOut).sql
        primaryKeys == SelectSeq(table.columns, IsPrimaryColumn)
        clause == ", PRIMARY KEY ("
                    \o join([ i \in DOMAIN primaryKeys |-> escape(primaryKeys[i].name) ], ", ")
                    \o "))"
    IN /\ Len(primaryKeys) = 1 =>
            /\ includes(sql, InlineKey(primaryKeys[1]))
            /\ Occurrences(sql, "PRIMARY KEY") = 1
            /\ ~ includes(sql, "PRIMARY KEY (")
       /\ Len(primaryKeys) > 1 =>
            /\ Occurrences(sql, "PRIMARY KEY") = 1
            /\ Occurrences(sql, "AUTOINCREMENT") = 0
            /\ endsWith(sql, clause)

(***************************************************************************)
(* C17: createTable issues exactly one statement, and that statement       *)
(* begins with CREATE TABLE IF NOT EXISTS for both values of the           *)
(* ifNotExist argument (and when it is omitted); the generated text does   *)
(* not depend on that argument.                                            *)
(***************************************************************************)
PrepareCalls(trace) == { k \in DOMAIN trace : trace[k].call = "prepare" }

C14_DefaultRoundTrip ==
  IsPresent(fnOut) /\ IsPresent(Get(fnOut).parsed) => Get(Get(fnOut).parsed) = Get(fnIn)

(***************************************************************************)
(* C15: normalizeQuery is idempotent: normalizing its own result changes   *)
(* nothing, for every text; and a DROP INDEX IF EXISTS statement (the form *)
(* normalizeQuery writes, in any letter case) is returned unchanged.       *)
(***************************************************************************)
\* /^DROP\s+INDEX\s+IF EXISTS/i on the text without its leading white space
IsDropIndexIfExists(query) ==
  LET text == trimStart(query)
      j == matchWordsSpace(text, 1, <<"DROP", "INDEX">>)
  IN j # 0 /\ matchWord(text, j, "IF EXISTS") # 0

C18_TrackingInvariant ==
  \A r \in DOMAIN runners :
    /\ ~ runners[r].isTransactionActive =>
         /\ runners[r].transactionStatements = <<>>
         /\ runners[r].transactionBindings = <<>>
    /\ Len(runners[r].transactionStatements) = Len(runners[r].transactionBindings)

\* a query() tracked its statement, a commit, rollback or release cleared
\* the arrays while that call was still waiting for the remote answer
C18_Witness ==
  /\ last.op \in { "commitTransaction", "rollbackTransaction", "release" }
  /\ last.outcome = "ok"
  /\ pending # <<>>
  /\ pending[1].pc = "remote"
  /\ ~ runners[1].isTransactionActive
  /\ runners[1].transactionStatements = <<>>
  /\ issued = 2

(***************************************************************************)
(* C19: wrapping a thrown exception that carries an embedded code equal to *)
(* one of the known codes yields a query error with exactly that code,     *)
(* whatever the message says; the code is derived from the message text    *)
(* only when no known code is embedded.  C19_Original states it as         *)
(* written.  C19_EmbeddedCodeAsDefault states what wrapD1Exception does:   *)
(* the message text is classified first, and the embedded known code is    *)
(* used only when the text holds none of the classifier's key words.       *)
(***************************************************************************)
WrappedThrow(step) ==
  /\ Completed(step)
  /\ IsPresent(step.call)
  /\ IsPresent(Get(step.call).response)
  /\ Get(Get(step.call).response).kind = "throw"

ThrownOf(step) == Get(Get(Get(step.call).response).error)

EmbedsKnownCode(error) ==
  /\ error.kind \in { "Error", "object" }
  /\ IsPresent(error.code)
  /\ Get(error.code) \in KnownCodes

ClassifierKeywords ==
  { "unique", "not null", "foreign key", "no such table", "already exists", "duplicate" }

HasClassifierKeyword(message) ==
  \E w \in ClassifierKeywords : includes(toLowerCase(message), w)

C19_Original ==
  WrappedThrow(last) /\ EmbedsKnownCode(ThrownOf(last)) =>
    /\ FailsWith(last, "D1QueryError")
    /\ Get(last.error).code = ThrownOf(last).code

C19_EmbeddedCodeAsDefault ==
  WrappedThrow(last) =>
    LET thrown == ThrownOf(last)
        message == extractErrorMessage(thrown)
        code == Get(Get(last.error).code)
    IN /\ FailsWith(last, "D1QueryError")
       /\ HasClassifierKeyword(message) => code = mapErrorCode(message, "D1_ERROR")
       /\ ~ HasClassifierKeyword(message) /\ EmbedsKnownCode(thrown) => code = Get(thrown.code)
       /\ ~ HasClassifierKeyword(message) /\ ~ EmbedsKnownCode(thrown) => code = "D1_ERROR"

C19_Witness ==
  /\ WrappedThrow(last)
  /\ ThrownOf(last).code = Some("SQLITE_CONSTRAINT_NOTNULL")
  /\ ThrownOf(last).message = Some("constraint failed")
  /\ Get(last.error).code = Some("SQLITE_CONSTRAINT_NOTNULL")

(***************************************************************************)
(* C20: every error query() raises for a failed statement has the message  *)
(* 'D1 Error: ' + the database's message + exactly one '\nQuery: ' suffix  *)
(* that holds the whole SQL text when it is at most 200 characters long    *)
(* and otherwise its first 200 characters followed by '...'.               *)
(***************************************************************************)
FailedStatement(step) ==
  /\ Completed(step)
  /\ step.outcome = "error"
  /\ IsPresent(step.call)
  /\ IsPresent(Get(step.call).response)

\* the message the database gave: the error string of a failed result, or
\* the message of what the remote call threw
DatabaseMessage(response) ==
  IF response.kind = "throw" THEN extractErrorMessage(Get(response.error))
  ELSE Get(Get(response.result).error)

QueryPreview(sql) ==
  IF Len(sql) <= 200 THEN sql ELSE SubSeq(sql, 1, 200) \o "..."

C20_MessageFormat ==
  FailedStatement(last) =>
    LET c == Get(last.call)
        message == Get(Get(last.error).message)
    IN /\ message = "D1 Error: " \o DatabaseMessage(Get(c.response))
                      \o "\nQuery: " \o QueryPreview(c.normalizedQuery)
       /\ Occurrences(message, "\nQuery: ") = 1

(***************************************************************************)
(* C21: every statement that is a DROP INDEX without IF EXISTS, written in *)
(* any letter case, is rewritten by normalizeQuery to DROP INDEX IF EXISTS *)
(* followed by the same index name, and every text that is not a DROP      *)
(* INDEX statement is returned unchanged.                                  *)
(***************************************************************************)
\* the index after /^\s*DROP\s+INDEX\s+/i in the text, or 0
DropIndexEnd(query) == matchWordsSpace(query, skipSpaces(query, 1), <<"DROP", "INDEX">>)

IsDropIndex(query) == DropIndexEnd(query) # 0

HasIfExists(query) == matchWords(query, DropIndexEnd(query), <<"IF", "EXISTS">>) # 0

\* what follows the key words of a DROP INDEX statement without IF EXISTS
IndexName(query) == SubSeq(query, DropIndexEnd(query), Len(query))

C21_DropIndexRewritten ==
  IsPresent(fnOut) =>
    LET query == Get(fnIn)
        out == Get(fnOut).once
    IN /\ IsDropIndex(query) /\ ~ HasIfExists(query)
            => out = "DROP INDEX IF EXISTS " \o IndexName(query)
       /\ ~ IsDropIndex(query) => out = query

(***************************************************************************)
(* C22 as stated: each query() call makes exactly one prepare() call on    *)
(* the normalized text and then exactly one of all() or run(): all() when  *)
(* the text, after trimming and ignoring letter case, starts with SELECT,  *)
(* WITH or PRAGMA, and run() for every other text.                         *)
(***************************************************************************)
\* the call of the last step has gone past its remote calls
Executed(step) == step.op = "query" /\ IsPresent(step.call) /\ Get(step.call).pc # "connect"

SelectLike(text) ==
  \E word \in { "SELECT", "WITH", "PRAGMA" } : startsWith(toUpperCase(trim(text)), word)

ExecutionCalls(trace) == { k \in DOMAIN trace : trace[k].call \in { "all", "run" } }

OnePrepareOnNormalizedText(c) ==
  /\ Cardinality(PrepareCalls(c.trace)) = 1
  /\ c.trace[1] = RemoteCall("prepare", normalizeQuery(c.query), <<>>)

OneExecutionByKind(c) ==
  /\ Cardinality(ExecutionCalls(c.trace)) = 1
  /\ c.trace[Len(c.trace)].call = (IF SelectLike(c.query) THEN "all" ELSE "run")

C22_Original ==
  Executed(last) =>
    LET c == Get(last.call) IN
    /\ OnePrepareOnNormalizedText(c)
    /\ OneExecutionByKind(c)

(***************************************************************************)
(* C22 amended: each query() call makes exactly one prepare() call on the  *)
(* normalized text; when prepare() or bind() throws it makes no all() or   *)
(* run() call, and otherwise exactly one, as its last remote call: all()   *)
(* when the text, trimmed and in any letter case, starts with SELECT, WITH *)
(* or PRAGMA, and run() for every other text.  The call makes no other     *)
(* remote call than an optional bind().                                    *)
(***************************************************************************)
C22_PrepareThenExecute ==
  Executed(last) =>
    LET c == Get(last.call) IN
    /\ OnePrepareOnNormalizedText(c)
    /\ IF c.fault = "none" THEN OneExecutionByKind(c) ELSE ExecutionCalls(c.trace) = {}
    /\ \A k \in DOMAIN c.trace : c.trace[k].call \in { "prepare", "bind", "all", "run" }
    /\ remoteLog = c.trace

C22_Witness ==
  /\ Completed(last)
  /\ last.outcome = "ok"
  /\ Get(last.call).query = "  select 1"
  /\ Len(remoteLog) = 3
  /\ remoteLog[2].call = "bind"
  /\ remoteLog[3].call = "all"

(***************************************************************************)
(* C23, the part about one call: each afterConnect call creates one new    *)
(* query runner, issues exactly one statement through it (PRAGMA           *)
(* foreign_keys = ON) and releases that runner whether the statement       *)
(* succeeds or fails, a failure propagating to the caller; and no query    *)
(* runner created later issues that statement on its own.                  *)
(***************************************************************************)
ForeignKeysPrepares(trace) ==
  { k \in DOMAIN trace : trace[k].call = "prepare" /\ trace[k].text = ForeignKeysOn }

\* the afterConnect calls whose statement has reached the remote handle
Executing ==
  { k \in DOMAIN afterConnects :
      \A i \in DOMAIN pending :
        pending[i].runner = afterConnects[k].runner => pending[i].pc # "connect" }

AfterConnectStarts ==
  last'.op = "afterConnect" /\ last'.outcome = "pending" =>
    LET r == Len(runners) + 1 IN
    /\ runners' = Append(runners, NewRunner)
    /\ last'.runner = r
    /\ pending' = Append(pending, NewCall(r, ForeignKeysOn, Absent, FALSE))
    /\ issued' = issued + 1
    /\ remoteLog' = remoteLog

AfterConnectReleases ==
  \A k \in DOMAIN afterConnects :
    ( /\ afterConnects[k].pc = "query"
      /\ Completed(last)
      /\ last.runner = afterConnects[k].runner )
    => /\ last'.op = "afterConnect"
       /\ last'.runner = last.runner
       /\ last'.outcome = last.outcome
       /\ last'.error = last.error
       /\ afterConnects'[k].released
       /\ afterConnects'[k].pc = "done"
       /\ runners'[last.runner] = NewRunner
       /\ Cardinality(ForeignKeysPrepares(Get(last.call).trace)) = 1
       /\ \A j \in DOMAIN Get(last.call).trace : Get(last.call).trace[j].text = ForeignKeysOn
       /\ <<pending', remoteLog', issued'>> = <<pending, remoteLog, issued>>

LaterRunnersIssueNothing ==
  last'.op = "createQueryRunner" =>
    <<pending', remoteLog', issued'>> = <<pending, remoteLog, issued>>

AfterConnectPerCall ==
  /\ [][AfterConnectStarts /\ AfterConnectReleases /\ LaterRunnersIssueNothing]_vars
  /\ [](\A k \in DOMAIN afterConnects : afterConnects[k].pc = "done" => afterConnects[k].released)

(***************************************************************************)
(* C23 as stated: the above, and over the lifetime of one driver that      *)
(* statement is issued once.                                               *)
(***************************************************************************)
C23_Original ==
  /\ AfterConnectPerCall
  /\ [](Cardinality(ForeignKeysPrepares(remoteLog)) <= 1)

(***************************************************************************)
(* C23 amended: each afterConnect call creates one new query runner,       *)
(* issues exactly one statement through it (PRAGMA foreign_keys = ON) and  *)
(* releases that runner whether the statement succeeds or fails, a failure *)
(* propagating to the caller; the statement is issued once per             *)
(* afterConnect call, as many times as afterConnect is called on the       *)
(* driver, and no query runner created later issues it on its own.         *)
(***************************************************************************)
C23_AfterConnect ==
  /\ AfterConnectPerCall
  /\ [](Cardinality(ForeignKeysPrepares(remoteLog)) = Cardinality(Executing))

C23_Witness ==
  /\ Len(afterConnects) = 2
  /\ last.op = "afterConnect"
  /\ last.outcome = "error"
  /\ afterConnects[1].error = Absent
  /\ \A k \in DOMAIN afterConnects : afterConnects[k].pc = "done" /\ afterConnects[k].released
  /\ Cardinality(ForeignKeysPrepares(remoteLog)) = 2

(***************************************************************************)
(* C24: when the stored CREATE TABLE text of a table cannot be parsed,     *)
(* getTables leaves that table out and still returns every other table    *)
(* whose text parses, getTable for that table returns undefined (not       *)
(* found), and neither call raises the parse error to its caller.          *)
(***************************************************************************)
LookupDone(step) == step.op \in { "getTable", "getTables" } /\ step.outcome # "pending"

\* the rows the remote handle answered the query of the step with
RowsOf(step) == resultsOrEmpty(Get(Get(Get(step.call).response).result))

CannotBeParsed(row) == row.sql # "" /\ IsPresent(parseTableSql(row.sql, row.name).error)

Parses(row) == row.sql # "" /\ ~ IsPresent(parseTableSql(row.sql, row.name).error)

TableOf(row) == Get(parseTableSql(row.sql, row.name).table)

C24_UnparseableTablesSkipped ==
  LookupDone(last) =>
    /\ last.outcome = "error" => Get(last.error).name # "D1ValidationError"
    /\ last.outcome = "ok" /\ last.op = "getTables" =>
         LET parsing == SelectSeq(RowsOf(last), Parses) IN
         Get(last.ret) = RetTables([ i \in 1..Len(parsing) |-> TableOf(parsing[i]) ])
    /\ last.outcome = "ok" /\ last.op = "getTable" /\ RowsOf(last) # <<>> =>
         /\ CannotBeParsed(RowsOf(last)[1]) => Get(last.ret) = RetUndefined
         /\ Parses(RowsOf(last)[1]) => Get(last.ret) = RetTable(TableOf(RowsOf(last)[1]))

C24_Witness ==
  /\ last.op = "getTables"
  /\ last.outcome = "ok"
  /\ Len(RowsOf(last)) = 2
  /\ CannotBeParsed(RowsOf(last)[1])
  /\ Parses(RowsOf(last)[2])
  /\ Len(Get(last.ret).tables) = 1
  /\ Get(last.ret).tables[1].name = "users"

(***************************************************************************)
(* C25: query() never returns normally for a remote result whose success   *)
(* field is false: every such result, with or without an error string,     *)
(* makes query() raise a query error.                                      *)
(***************************************************************************)
\* the call of the step was answered with a result that has success: false
AnsweredWithFailure(step) ==
  /\ Completed(step)
  /\ IsPresent(Get(step.call).response)
  /\ Get(Get(step.call).response).kind = "result"
  /\ ~ Get(Get(Get(step.call).response).result).success

C25_FailedResultRaises ==
  AnsweredWithFailure(last) => FailsWith(last, "D1QueryError")

(***************************************************************************)
(* C26: every failure that query() raises because of the remote handle,    *)
(* whether prepare(), bind(), run() or all() throws or a failed result is  *)
(* returned, is a typed query error carrying the SQL text; no raw          *)
(* remote-handle exception escapes query().                                *)
(***************************************************************************)
C26_TypedQueryErrors ==
  Completed(last) /\ last.outcome = "error" =>
    /\ FailsWith(last, "D1QueryError")
    /\ Get(last.error).query = Some(Get(last.call).normalizedQuery)

(***************************************************************************)
(* C27: the code of the query error raised by query() depends only on the  *)
(* database's error message and never on the SQL text of the failing       *)
(* statement: two failing statements with different SQL text but the same  *)
(* database error message get the same code.                               *)
(***************************************************************************)
\* the error query() raises when the statement `text` gets the answer the
\* call of the step got
ErrorFor(step, text) ==
  executeQueryOutcome([ Get(step.call) EXCEPT !.query = text,
                                               !.normalizedQuery = normalizeQuery(text) ],
                      Get(Get(step.call).response)).error

C27_CodeIndependentOfSql ==
  FailedStatement(last) =>
    \A text \in QueryTexts :
      /\ IsPresent(ErrorFor(last, text))
      /\ Get(ErrorFor(last, text)).code = Get(last.error).code

(***************************************************************************)
(* C28: while the registry patch is in place, the patched host factory     *)
(* routes a configuration to the D1 driver only if the D1 driver           *)
(* constructor accepts that configuration; every configuration the         *)
(* constructor would reject is passed to the original factory instead.     *)
(***************************************************************************)
\* the last step called the host factory while the patch was installed
PatchedCreateCalled == last.op = "create" /\ factoryCreate = PatchedCreate

ConstructorAccepts(options) == ~ IsPresent(D1Driver(options).error)

DeclaresColumn(entry) == IsPresent(entry.declares)

\* the names the body declares, in declaration order
DeclaredNames(body) ==
  LET columns == SelectSeq(body, DeclaresColumn) IN
  [ i \in 1..Len(columns) |-> Get(columns[i].declares) ]

ParsedNames(parsed) ==
  [ i \in 1..Len(Get(parsed.table).columns) |-> Get(parsed.table).columns[i].name ]

C29_EveryColumnParsed ==
  IsPresent(fnOut) =>
    /\ ~ IsPresent(Get(fnOut).error)
    /\ ParsedNames(Get(fnOut)) = DeclaredNames(Get(fnIn))

(***************************************************************************)
(* C30: storage types are stable under introspection: for each storage     *)
(* type the parser recognises (INTEGER, REAL, TEXT, BLOB, NUMERIC),        *)
(* generating a column from the type the parser reports yields the same    *)
(* storage type again.                                                     *)
(***************************************************************************)
RecognisedStorageTypes == DOMAIN MetadataParser_typeMap

\* the entries of the body that declare the parsed column
DeclarationsOf(body, column) ==
  { i \in 1..Len(body) : body[i].declares = Some(column.name) }

====
